---- MODULE Spec2Model ----
(***************************************************************************)
(* A model of the NYFF scraper (src/src/nyff_scraper): the fetch cache,    *)
(* the lineup extractor, the classification and scoring engine and the     *)
(* trailer stage.                                                          *)
(*                                                                         *)
(* Text is modelled as a sequence of tokens (words, punctuation marks and  *)
(* markup tags).  Python's str.lower() is LowerText, the substring test    *)
(* "indicator in text" is Contains on token sequences, and the f-string    *)
(* "{title} {description}" is the concatenation of the two sequences.      *)
(* A Python dict is a record with a field "keys" naming the keys that are  *)
(* present; None is the one-token text NoneT.                              *)
(***************************************************************************)
EXTENDS Integers, Sequences, FiniteSets, TLC

VARIABLES
    film,       \* the film dict handed to the scoring / classification engine
    firstPass,  \* the film dict as MetadataEnricher.enrich_films left it the first time
    passes,     \* how many times enrich_films / the scorer has been applied to film
    raised,     \* the exception the last call raised ("" when it returned)
    lastScore,  \* the tuple calculate_distribution_likelihood_score returned last
    films,      \* the batch of film dicts travelling through the pipeline
    stages,     \* the stages that ran on the batch, in order
    searched,   \* the titles a trailer search request was issued for
    exported,   \* the batch handed to the exporters (<<>> before export)
    cache,      \* the cache directory: filename -> entry, or NoEntry
    lastCall,   \* what the last get_cached_or_fetch call did
    lineup,     \* what the last scrape_nyff_lineup call did
    input,      \* the arguments a function of the program is applied to
    output      \* what the function returned for them (NoOutput before)

vars == <<film, firstPass, passes, raised, lastScore, films, stages, searched,
          exported, cache, lastCall, lineup, input, output>>

scoreVars == <<film, firstPass, passes, raised, lastScore>>
pipeVars  == <<films, stages, searched, exported>>
fetchVars == <<cache, lastCall, lineup>>
applyVars == <<input, output>>

--------------------------------------------------------------------------
(* Bounds of the model *)

MaxCompanies == 4       \* longest production_companies list drawn
MaxDistributors == 1    \* longest distributors list drawn
MaxPasses == 2          \* applications of enrich_films to one record
MaxBatch == 2           \* films in the batch of the pipeline
MaxLimit == 2           \* largest --limit drawn
MaxCandidates == 2      \* video ids on a search result page
MaxAgeMinutes == 50     \* ages of cache files above this are recorded as this
MaxScrapes == 2         \* calls of scrape_nyff_lineup in a behaviour
MaxButtons == 2         \* time entries of a date section
MaxTitleLen == 3        \* characters of a title given to _is_title_match
MaxResults == 2         \* result links of an IMDb search page
MaxFetches == 3         \* scrapes and searches made on one cache directory

--------------------------------------------------------------------------
(* Text *)

NoneT == <<"<None>">>

IsNone(v) == v = NoneT

\* the one-element list ["co"] * n : a list of n company names
NameList(n) == [i \in 1..n |-> "co"]

\* str.lower() on one token
LowerTok(t) ==
    CASE t = "Shorts" -> "shorts"
      [] t = "Program" -> "program"
      [] t = "Opening" -> "opening"
      [] t = "Night" -> "night"
      [] t = "Anora" -> "anora"
      [] t = "Classic" -> "classic"
      [] t = "Jane" -> "jane"
      [] t = "Doe" -> "doe"
      [] t = "John" -> "john"
      [] t = "Roe" -> "roe"
      [] t = "Q&A" -> "q&a"
      [] t = "Intro" -> "intro"
      [] t = "Restoration" -> "restoration"
      [] t = "Spotlight" -> "spotlight"
      [] OTHER -> t

LowerText(s) == [i \in DOMAIN s |-> LowerTok(s[i])]

\* "ind in text" on token sequences
Contains(text, ind) ==
    \E i \in 1..(Len(text) - Len(ind) + 1) : SubSeq(text, i, i + Len(ind) - 1) = ind

ContainsAny(text, inds) == \E ind \in inds : Contains(text, ind)

\* [A-Z] : the token starts with an upper-case letter
StartsUpper(t) == LowerTok(t) # t

\* [A-Z][a-z]+ : a capitalised word
Capitalised(t) == StartsUpper(t) /\ t # "Q&A"

--------------------------------------------------------------------------
(* Python dicts *)

Get(d, k, default) == IF k \in d.keys THEN d[k] ELSE default

Put(d, k, v) == [[d EXCEPT ![k] = v] EXCEPT !.keys = @ \cup {k}]

\* Body applied to the value of e (e is evaluated once)
With(e, Body(_)) == CHOOSE r \in { Body(x) : x \in {e} } : TRUE

\* the placeholder value of every key, for the keys a dict does not have
BlankFilm ==
    [keys |-> {},
     title |-> <<>>, director |-> <<>>, description |-> <<>>,
     year |-> <<>>, country |-> <<>>, runtime |-> <<>>,
     nyff_showtimes |-> <<>>,
     production_companies |-> <<>>, distributors |-> <<>>,
     imdb_id |-> <<>>, theatrical_release_date |-> <<>>,
     likely_theatrical |-> FALSE,
     is_short_program |-> FALSE, is_restoration |-> FALSE,
     has_intro_or_qna |-> FALSE, category |-> <<>>,
     distribution_likelihood_score |-> 0,
     is_likely_to_be_distributed |-> FALSE,
     notes |-> <<>>,
     trailer_url |-> <<>>, youtube_search_url |-> <<>>,
     is_festival_debut |-> FALSE, screenings |-> <<>>, date |-> <<>>]

\* a showtime dict of extract_showtimes
Showtime(date, time, notes, available, raw_text) ==
    [date |-> date, time |-> time, venue |-> "TBA", notes |-> notes,
     available |-> available, raw_text |-> raw_text]

\* the film dict extract_film_data returns
ExtractedFilm(title, director, description, year, country, runtime, showtimes) ==
    [BlankFilm EXCEPT
        !.keys = {"title", "director", "description", "year", "country",
                  "runtime", "nyff_showtimes"},
        !.title = title, !.director = director, !.description = description,
        !.year = year, !.country = country, !.runtime = runtime,
        !.nyff_showtimes = showtimes]

--------------------------------------------------------------------------
(* distribution_scorer.py : DistributionLikelihoodScorer *)

main_slate_indicators ==
    {<<"main", "slate">>, <<"opening", "night">>, <<"closing", "night">>,
     <<"centerpiece">>, <<"gala", "screening">>, <<"world", "premiere">>,
     <<"north", "american", "premiere">>}

spotlight_indicators ==
    {<<"spotlight">>, <<"special", "presentation">>, <<"red", "carpet">>,
     <<"festival", "highlight">>, <<"special", "screening">>}

currents_indicators ==
    {<<"currents">>, <<"experimental">>, <<"avant-garde">>, <<"art", "house">>,
     <<"independent">>, <<"emerging", "filmmaker">>}

section_restoration_indicators ==
    {<<"restoration">>, <<"revival">>, <<"retrospective">>, <<"classic">>,
     <<"newly", "restored">>, <<"4k", "restoration">>, <<"remastered">>}

\* the section weights with shorts weighted like restoration
section_score_shorts_as_restoration(festival_section) ==
    CASE festival_section = "main slate" -> 50
      [] festival_section = "spotlight" -> 45
      [] festival_section = "currents" -> 0 - 40
      [] festival_section \in {"restoration", "revivals", "shorts"} -> 0 - 70
      [] OTHER -> 0

\* self.section_weights.get(festival_section, 0)
calculate_festival_section_score(festival_section) ==
    CASE festival_section = "main slate" -> 50
      [] festival_section = "spotlight" -> 45
      [] festival_section = "currents" -> 0 - 40
      [] festival_section = "restoration" -> 0 - 70
      [] festival_section = "revivals" -> 0 - 70
      [] festival_section = "shorts" -> 0 - 80
      [] OTHER -> 0

\* the section is decided before title and description are read
SectionFromFields(f) ==
    LET category == LowerText(Get(f, "category", <<>>))
    IN  IF category = <<"shorts">> THEN "shorts"
        ELSE IF category = <<"restoration">> THEN "restoration"
        ELSE IF Get(f, "is_short_program", FALSE) THEN "shorts"
        ELSE IF Get(f, "is_restoration", FALSE) THEN "restoration"
        ELSE "text"

\* film.get('description', '').lower() on a description that is None
SectionRaises(f) ==
    SectionFromFields(f) = "text" /\ IsNone(Get(f, "description", <<>>))

extract_festival_section(f) ==
    LET early == SectionFromFields(f)
        text_content == LowerText(Get(f, "title", <<>>))
                            \o LowerText(Get(f, "description", <<>>))
    IN  IF early # "text" THEN early
        ELSE IF ContainsAny(text_content, main_slate_indicators) THEN "main slate"
        ELSE IF ContainsAny(text_content, spotlight_indicators) THEN "spotlight"
        ELSE IF ContainsAny(text_content, currents_indicators) THEN "currents"
        ELSE IF ContainsAny(text_content, section_restoration_indicators)
             THEN "restoration"
        ELSE "unknown"

\* a Python value is true unless it is None or empty
Truthy(v) == ~IsNone(v) /\ v # <<>>

calculate_imdb_score(f, theatrical_release_date) ==
      (IF Truthy(Get(f, "distributors", <<>>)) THEN 40 ELSE 0)
    + (IF Len(Get(f, "production_companies", <<>>)) > 3 THEN 20 ELSE 0)
    + (IF Truthy(theatrical_release_date) THEN 10 ELSE 0)

\* the legacy heuristic with the threshold of the IMDb signal (> 3)
legacy_score_threshold_3(f) ==
      (IF Len(Get(f, "production_companies", <<>>)) > 3 THEN 20 ELSE 0)
    + (IF Truthy(Get(f, "distributors", <<>>)) THEN 30 ELSE 0)

calculate_legacy_producer_distributor_score(f) ==
      (IF Len(Get(f, "production_companies", <<>>)) > 2 THEN 20 ELSE 0)
    + (IF Truthy(Get(f, "distributors", <<>>)) THEN 30 ELSE 0)

Max2(a, b) == IF a >= b THEN a ELSE b
Min2(a, b) == IF a <= b THEN a ELSE b

\* min(100, total_score) alone: the floor at 0 is lost
CapScoreNoFloor(total_score) == Min2(100, total_score)

\* max(0, min(100, total_score))
CapScore(total_score) == Max2(0, Min2(100, total_score))

\* the tuple (final_score, is_likely_distributed, theatrical_release_date)
calculate_distribution_likelihood_score(f) ==
    LET festival_section == extract_festival_section(f)
        section_score == calculate_festival_section_score(festival_section)
        theatrical_release_date == Get(f, "theatrical_release_date", NoneT)
        imdb_score == calculate_imdb_score(f, theatrical_release_date)
        legacy_score == calculate_legacy_producer_distributor_score(f)
        total_score == section_score + imdb_score + legacy_score
        final_score == CapScore(total_score)
    IN  [score |-> final_score,
         is_likely |-> (final_score >= 50),
         release_date |-> theatrical_release_date,
         section |-> festival_section,
         total |-> total_score]

\* the score added to the one the dict already carries ( += for = )
enrich_film_accumulating_score(f) ==
    With(calculate_distribution_likelihood_score(f), LAMBDA r :
        [f EXCEPT
            !.keys = @ \cup {"distribution_likelihood_score",
                             "is_likely_to_be_distributed",
                             "theatrical_release_date", "likely_theatrical"},
            !.distribution_likelihood_score =
                Get(f, "distribution_likelihood_score", 0) + r.score,
            !.is_likely_to_be_distributed = r.is_likely,
            !.theatrical_release_date = r.release_date,
            !.likely_theatrical = r.is_likely])

enrich_film_with_distribution_score(f) ==
    With(calculate_distribution_likelihood_score(f), LAMBDA r :
        [f EXCEPT
            !.keys = @ \cup {"distribution_likelihood_score",
                             "is_likely_to_be_distributed",
                             "theatrical_release_date", "likely_theatrical"},
            !.distribution_likelihood_score = r.score,
            !.is_likely_to_be_distributed = r.is_likely,
            !.theatrical_release_date = r.release_date,
            !.likely_theatrical = r.is_likely])

--------------------------------------------------------------------------
(* metadata_enricher.py : MetadataEnricher *)

shorts_title_indicators ==
    {<<"shorts">>, <<"short", "films">>, <<"short", "program">>, <<"anthology">>,
     <<"collection">>, <<"omnibus">>, <<"portmanteau">>}

desc_indicators ==
    {<<"short", "films">>, <<"shorts", "program">>, <<"anthology">>,
     <<"collection", "of">>, <<"various", "directors">>,
     <<"multiple", "filmmakers">>, <<"several", "shorts">>}

\* r'(?:and|&|\+|,)\s*[A-Z]' and r',\s*[A-Z][a-z]+\s+[A-Z][a-z]+', searched in text
multiple_director_patterns(text) ==
    \/ \E i \in 1..(Len(text) - 1) :
          text[i] \in {"and", "&", "+", ","} /\ StartsUpper(text[i + 1])
    \/ \E i \in 1..(Len(text) - 2) :
          text[i] = "," /\ Capitalised(text[i + 1]) /\ Capitalised(text[i + 2])

\* the result of is_short_program before the runtime is read: "True", or "runtime"
ShortProgramEarly(f) ==
    LET title == LowerText(Get(f, "title", <<>>))
        description == LowerText(Get(f, "description", <<>>))
        director == LowerText(Get(f, "director", <<>>))
    IN  \/ ContainsAny(title, shorts_title_indicators)
        \/ ContainsAny(description, desc_indicators)
        \/ multiple_director_patterns(director)

\* None.lower() raises AttributeError
IsShortProgramRaises(f) ==
    \/ IsNone(Get(f, "description", <<>>))
    \/ IsNone(Get(f, "director", <<>>))
    \/ (~ShortProgramEarly(f) /\ IsNone(Get(f, "runtime", <<>>)))

is_short_program(f) ==
    \/ ShortProgramEarly(f)
    \/ LET runtime == LowerText(Get(f, "runtime", <<>>))
       IN  runtime # <<>> /\ ContainsAny(runtime, {<<"shorts">>, <<"films">>, <<"segments">>})

restoration_indicators ==
    {<<"restoration">>, <<"4k", "restoration">>, <<"new", "restoration">>,
     <<"restored">>, <<"remastered">>, <<"revival">>, <<"classic">>,
     <<"retrospective">>, <<"newly", "restored">>, <<"digital", "restoration">>}

\* str.isdigit() of a one-token text, and int() of it
IsDigitTok(t) == t \in {"0", "1975", "2019", "2020", "2025", "90", "12"}

IntOf(t) ==
    CASE t = "0" -> 0
      [] t = "1975" -> 1975
      [] t = "2019" -> 2019
      [] t = "2020" -> 2020
      [] t = "2025" -> 2025
      [] t = "90" -> 90
      [] t = "12" -> 12
      [] OTHER -> 0

IsDigitText(s) == Len(s) = 1 /\ IsDigitTok(s[1])

RestorationByText(f) ==
    LET text_content == LowerText(Get(f, "title", <<>>))
                            \o LowerText(Get(f, "description", <<>>))
    IN  ContainsAny(text_content, restoration_indicators)

\* year.isdigit() on a year that is None: AttributeError, which the
\* except (ValueError, TypeError) clause does not catch
IsRestorationRaises(f) ==
    ~RestorationByText(f) /\ IsNone(Get(f, "year", <<>>))

is_restoration(f) ==
    \/ RestorationByText(f)
    \/ LET year == Get(f, "year", <<>>)
       IN  IsDigitText(year) /\ IntOf(year[1]) # 0 /\ IntOf(year[1]) < 2020

intro_qna_indicators ==
    {<<"q&a">>, <<"introduction">>, <<"panel">>, <<"discussion">>,
     <<"filmmaker", "in", "attendance">>, <<"followed", "by">>,
     <<"with", "director">>, <<"with", "cast">>, <<"film", "scholar">>,
     <<"critic">>, <<"moderated">>, <<"special", "guest">>}

has_intro_or_qna(f) ==
    LET showtimes == Get(f, "nyff_showtimes", <<>>)
        description == LowerText(Get(f, "description", <<>>))
    IN  \/ \E i \in DOMAIN showtimes : \E j \in DOMAIN showtimes[i].notes :
              LowerTok(showtimes[i].notes[j])
                  \in {"q&a", "intro", "introduction", "panel", "discussion"}
        \/ ContainsAny(description, intro_qna_indicators)

category_spotlight_indicators ==
    {<<"spotlight">>, <<"opening", "night">>, <<"closing", "night">>, <<"gala">>,
     <<"centerpiece">>, <<"special", "screening">>, <<"world", "premiere">>,
     <<"red", "carpet">>, <<"festival", "highlight">>}

\* the first run of digits in the runtime, as re.search(r'(\d+)') finds it
RuntimeMinutes(runtime) ==
    IF \E i \in DOMAIN runtime : IsDigitTok(runtime[i])
    THEN IntOf(runtime[CHOOSE i \in DOMAIN runtime :
                   /\ IsDigitTok(runtime[i])
                   /\ \A j \in 1..(i - 1) : ~IsDigitTok(runtime[j])])
    ELSE 0 - 1

categorize_film(f) ==
    LET text_content == LowerText(Get(f, "title", <<>>))
                            \o LowerText(Get(f, "description", <<>>))
        runtime == Get(f, "runtime", <<>>)
    IN  IF Get(f, "is_short_program", FALSE) THEN <<"shorts">>
        ELSE IF Get(f, "is_restoration", FALSE) THEN <<"restoration">>
        ELSE IF ContainsAny(text_content, category_spotlight_indicators)
             THEN <<"spotlight">>
        ELSE IF Truthy(runtime) /\ RuntimeMinutes(runtime) >= 40 THEN <<"feature">>
        ELSE <<"feature">>

\* emoji_pattern.sub('', notes) and ' '.join(cleaned.split())
clean_notes(notes) == SelectSeq(notes, LAMBDA t : t \notin {"<emoji>", " "})

\* "; ".join(notes_parts)
StructuredNotes(f) ==
    (IF f.is_short_program THEN <<"Shorts program">> ELSE <<>>)
    \o (IF f.is_restoration THEN <<"Restoration/revival">> ELSE <<>>)
    \o (IF f.has_intro_or_qna THEN <<"Includes intro/Q&A">> ELSE <<>>)
    \o (IF ~f.is_likely_to_be_distributed
        THEN <<"Limited distribution expected">> ELSE <<>>)

\* the notes of a film that has its flags and its score
WithNotes(f) ==
    IF "notes" \in f.keys
    THEN Put(f, "notes", clean_notes(f.notes))
    ELSE Put(f, "notes", StructuredNotes(f))

\* the body of the loop of enrich_films for one film: the film as the loop
\* leaves it, and the exception that ended it ("" when none did)
EnrichOneFilm(f) ==
    IF IsShortProgramRaises(f) THEN [film |-> f, raised |-> "AttributeError"]
    ELSE With(Put(f, "is_short_program", is_short_program(f)), LAMBDA f1 :
         IF IsRestorationRaises(f1) THEN [film |-> f1, raised |-> "AttributeError"]
         ELSE With(Put(f1, "is_restoration", is_restoration(f1)), LAMBDA f2 :
              With(Put(f2, "has_intro_or_qna", has_intro_or_qna(f2)), LAMBDA f3 :
              With(Put(f3, "category", categorize_film(f3)), LAMBDA f4 :
              With(enrich_film_with_distribution_score(f4), LAMBDA f5 :
              [film |-> WithNotes(f5), raised |-> ""])))))

\* MetadataEnricher.enrich_films: the films are changed in place, one after
\* the other, and an exception ends the loop where it is raised
RECURSIVE MetadataEnrichFrom(_, _)
MetadataEnrichFrom(fs, i) ==
    IF i > Len(fs) THEN [films |-> fs, raised |-> ""]
    ELSE With(EnrichOneFilm(fs[i]), LAMBDA r :
         With([fs EXCEPT ![i] = r.film], LAMBDA fs1 :
         IF r.raised # "" THEN [films |-> fs1, raised |-> r.raised]
         ELSE MetadataEnrichFrom(fs1, i + 1)))

MetadataEnricher_enrich_films(fs) == MetadataEnrichFrom(fs, 1)

--------------------------------------------------------------------------
(* trailer_enricher.py : TrailerEnricher *)

TopCandidates == 10

\* str.translate(punctuation) and lower() on one token ("" when nothing is left)
NormTok(t) ==
    CASE t \in {",", "&", "+", ":", "-"} -> ""
      [] t \in {"Q&A", "q&a"} -> "qa"
      [] OTHER -> LowerTok(t)

\* normalize_text: lowercase, strip punctuation, collapse spaces
normalize_text(text) ==
    SelectSeq([i \in DOMAIN text |-> NormTok(text[i])], LAMBDA t : t # "")

Range(seq) == { seq[i] : i \in DOMAIN seq }

\* overlap / len(film_words) >= 0.6
TitleOverlaps(film_norm, video_title_norm) ==
    LET film_words == Range(film_norm)
        overlap == Cardinality({ w \in film_words : w \in Range(video_title_norm) })
    IN  film_words # {} /\ 10 * overlap >= 6 * Cardinality(film_words)

VideoUrl(vid) == <<"https://www.youtube.com/watch?v=", vid>>

\* a candidate of the result page is accepted when its page loads, has a
\* <title> and the title overlaps the film title
CandidateMatches(title, cand) ==
    /\ cand.page = "ok"
    /\ TitleOverlaps(normalize_text(title), normalize_text(cand.title))

\* search_youtube_trailer(title, year, director) on the response the search
\* request got: the URL of the first matching candidate among the first ten,
\* and "" when the request failed, found nothing or nothing matched
search_youtube_trailer(title, year, director, response) ==
    IF response.status # "ok" THEN <<>>
    ELSE LET video_ids == SubSeq(response.video_ids, 1,
                                 Min2(TopCandidates, Len(response.video_ids)))
             hits == { i \in DOMAIN video_ids : CandidateMatches(title, video_ids[i]) }
         IN  IF hits = {} THEN <<>>
             ELSE VideoUrl(video_ids[CHOOSE i \in hits : \A j \in hits : i <= j].vid)

\* " ".join(query_parts).replace(" ", "+") behind the search address
construct_youtube_search_url(title, year, director) ==
    LET query_parts == title \o (IF Truthy(director) THEN director ELSE <<>>)
                             \o (IF Truthy(year) THEN year ELSE <<>>)
                             \o <<"trailer">>
    IN  <<"https://www.youtube.com/results?search_query=">> \o query_parts

\* the body of the loop of TrailerEnricher.enrich_films for one film
TrailerOneFilm(f, search_trailers, response) ==
    LET title == Get(f, "title", <<>>)
        year == Get(f, "year", <<>>)
        director == Get(f, "director", <<>>)
        is_short == Get(f, "is_short_program", FALSE)
        manual == construct_youtube_search_url(title, year, director)
    IN  IF is_short
        THEN [film |-> [f EXCEPT !.keys = @ \cup {"trailer_url", "youtube_search_url"},
                                 !.trailer_url = <<>>, !.youtube_search_url = <<>>],
              searched |-> FALSE]
        ELSE IF search_trailers /\ Truthy(title) /\ Truthy(year)
        THEN [film |-> [f EXCEPT !.keys = @ \cup {"trailer_url", "youtube_search_url"},
                                 !.trailer_url =
                                     search_youtube_trailer(title, year, director, response),
                                 !.youtube_search_url = manual],
              searched |-> TRUE]
        ELSE [film |-> [f EXCEPT !.keys = @ \cup {"trailer_url", "youtube_search_url"},
                                 !.trailer_url = <<>>,
                                 !.youtube_search_url =
                                     IF Truthy(title) /\ Truthy(year) THEN manual ELSE <<>>],
              searched |-> FALSE]

\* films[:limit] when limit is given and not 0
Limited(fs, limit) ==
    IF limit > 0 THEN SubSeq(fs, 1, Min2(limit, Len(fs))) ELSE fs

\* TrailerEnricher.enrich_films(films, search_trailers, limit): the list it
\* returns and the films a search request was sent for
TrailerEnricher_enrich_films(fs, search_trailers, limit, responses) ==
    With(Limited(fs, limit), LAMBDA cut :
    With([i \in DOMAIN cut |-> TrailerOneFilm(cut[i], search_trailers, responses[i])],
         LAMBDA rs :
         [films |-> [i \in DOMAIN cut |-> rs[i].film],
          searched |-> { i \in DOMAIN cut : rs[i].searched }]))

--------------------------------------------------------------------------
(* scraper.py : the fetch cache *)

DEFAULT_CACHE_MAX_AGE_MINUTES == 45
max_retries == 3
ContentStartLength == 100

\* max_age_minutes=None
NoMaxAge == 0 - 1

\* the number of characters of a token of a document
TokLen(t) ==
    CASE t = "<!DOCTYPE html>" -> 15
      [] t \in {"<html>", "<HTML>"} -> 6
      [] t = "</html>" -> 7
      [] t = "pad95" -> 95
      [] t = "pad96" -> 96
      [] t \in {" ", "\n", "\r"} -> 1
      [] t = "\r\n" -> 2
      [] OTHER -> 6

\* str.lower() on a token of a document
LowerMarkup(t) ==
    CASE t = "<!DOCTYPE html>" -> "<!doctype html>"
      [] t = "<HTML>" -> "<html>"
      [] OTHER -> t

IsSpace(t) == t \in {" ", "\n", "\r", "\r\n"}

\* the tokens of content.strip(): leading and trailing white space removed
Strip(content) ==
    LET solid == { i \in DOMAIN content : ~IsSpace(content[i]) }
    IN  IF solid = {} THEN <<>>
        ELSE SubSeq(content, CHOOSE i \in solid : \A j \in solid : i <= j,
                             CHOOSE i \in solid : \A j \in solid : i >= j)

RECURSIVE Offset(_, _)
\* the number of characters before token i
Offset(text, i) == IF i <= 1 THEN 0 ELSE Offset(text, i - 1) + TokLen(text[i - 1])

\* content_start.startswith('<!doctype') or content_start.startswith('<html')
\* or '<html' in content_start, for content_start = content.strip()[:100].lower()
LooksLikeHtml(content) ==
    LET stripped == Strip(content)
    IN  /\ stripped # <<>>
        /\ \/ LowerMarkup(stripped[1]) = "<!doctype html>"
           \/ \E i \in DOMAIN stripped :
                 /\ LowerMarkup(stripped[i]) = "<html>"
                 /\ Offset(stripped, i) + 5 <= ContentStartLength

\* the check of the response body as the code makes it: an empty
\* content_start is let through (if content_start and not (...))
ContentAccepted(content) == Strip(content) = <<>> \/ LooksLikeHtml(content)

\* _decode_response_content(response): the content, or None
decode_response_content(response) ==
    IF response.decode_raises
    THEN IF response.text_raises THEN <<>> ELSE response.body
    ELSE IF ContentAccepted(response.body) THEN response.body ELSE NoneT

\* only Timeout is caught
CaughtTimeoutOnly(kind) == kind = "Timeout"

\* except (requests.RequestException, requests.Timeout)
Caught(kind) == kind \in {"ConnectionError", "Timeout", "HTTPError"}

\* open(path, 'w', encoding='utf-8').write(content) where os.linesep is "\n":
\* the text is stored as it is
WriteText(content) == content

\* open(path, 'r', encoding='utf-8').read(): universal newlines, every
\* "\r\n" and "\r" of the file is read as "\n"
ReadText(stored) ==
    [i \in DOMAIN stored |-> IF stored[i] \in {"\r\n", "\r"} THEN "\n" ELSE stored[i]]

NoEntry == [exists |-> FALSE, content |-> <<>>, age |-> 0, returned |-> <<>>]

\* the age test with < for <=
should_use_cache_strict(entry, max_age_minutes, force_refresh) ==
    /\ entry.exists /\ ~force_refresh
    /\ (max_age_minutes = NoMaxAge \/ entry.age < max_age_minutes)

\* should_use_cache
should_use_cache(entry, max_age_minutes, force_refresh) ==
    /\ entry.exists /\ ~force_refresh
    /\ (max_age_minutes = NoMaxAge \/ entry.age <= max_age_minutes)

RECURSIVE Attempt(_, _)
\* the retry loop from attempt i on: what is returned or raised, after how
\* many GET requests, and the content written to the cache file (None if none)
Attempt(responses, i) ==
    IF i > max_retries
    THEN [result |-> NoneT, raised |-> "", attempts |-> max_retries, written |-> NoneT]
    ELSE IF responses[i].kind # "ok"
    THEN IF Caught(responses[i].kind)
         THEN Attempt(responses, i + 1)
         ELSE [result |-> NoneT, raised |-> responses[i].kind, attempts |-> i,
               written |-> NoneT]
    ELSE With(decode_response_content(responses[i]), LAMBDA content :
         IF ~IsNone(content)
         THEN [result |-> content, raised |-> "", attempts |-> i, written |-> content]
         ELSE Attempt(responses, i + 1))

\* get_cached_or_fetch when a failed refresh removes the cache file it
\* could not replace
get_cached_or_fetch_dropping_entry(store, filename, max_age_minutes, force_refresh, responses) ==
    IF should_use_cache(store[filename], max_age_minutes, force_refresh)
    THEN [result |-> ReadText(store[filename].content), raised |-> "",
          attempts |-> 0, hit |-> TRUE, store |-> store]
    ELSE With(Attempt(responses, 1), LAMBDA r :
         [result |-> r.result, raised |-> r.raised, attempts |-> r.attempts,
          hit |-> FALSE,
          store |-> IF IsNone(r.written) THEN [store EXCEPT ![filename] = NoEntry]
                    ELSE [store EXCEPT ![filename] =
                             [exists |-> TRUE, content |-> WriteText(r.written),
                              age |-> 0, returned |-> r.result]]])

\* get_cached_or_fetch(url, filename, max_age_minutes, force_refresh): what
\* the call returns and the cache directory it leaves, given the responses
\* the GET requests for url get
get_cached_or_fetch(store, filename, max_age_minutes, force_refresh, responses) ==
    IF should_use_cache(store[filename], max_age_minutes, force_refresh)
    THEN [result |-> ReadText(store[filename].content), raised |-> "",
          attempts |-> 0, hit |-> TRUE, store |-> store]
    ELSE With(Attempt(responses, 1), LAMBDA r :
         [result |-> r.result, raised |-> r.raised, attempts |-> r.attempts,
          hit |-> FALSE,
          store |-> IF IsNone(r.written) THEN store
                    ELSE [store EXCEPT ![filename] =
                             [exists |-> TRUE, content |-> WriteText(r.written),
                              age |-> 0, returned |-> r.result]]])

--------------------------------------------------------------------------
(* scraper.py : the lineup page *)

\* a missing element (select_one(...) is None)
NoElement == <<"<no element>">>

RECURSIVE SplitBar(_)
\* text.split('|'), each part stripped
SplitBar(text) ==
    LET bars == { i \in DOMAIN text : text[i] = "|" }
    IN  IF bars = {} THEN <<text>>
        ELSE LET b == CHOOSE i \in bars : \A j \in bars : i <= j
             IN  <<SubSeq(text, 1, b - 1)>> \o SplitBar(SubSeq(text, b + 1, Len(text)))

\* text.replace('|', '').strip()
WithoutBar(text) == SelectSeq(text, LAMBDA t : t # "|")

\* clean_text.isdigit() and len(clean_text) == METADATA_YEAR_LENGTH
IsFourDigits(text) ==
    Len(text) = 1 /\ text[1] \in {"1975", "2019", "2020", "2025"}

\* text.isdigit()
IsDigits(text) == Len(text) = 1 /\ IsDigitTok(text[1])

\* 'minute' in text.lower()
HasMinute(text) == \E i \in DOMAIN text : text[i] \in {"minutes", "Minutes", "minute"}

\* 'subtitle' in text.lower()
HasSubtitle(text) == \E i \in DOMAIN text : text[i] \in {"subtitles", "Subtitles"}

NoMetadata == [year |-> NoneT, country |-> NoneT, runtime |-> NoneT]

RECURSIVE MetadataStrategy1(_, _, _)
\* the loop over the paragraphs of the flex container, from paragraph i on
MetadataStrategy1(ps, i, m) ==
    IF i > Len(ps) THEN m
    ELSE With(WithoutBar(ps[i]), LAMBDA clean_text :
         MetadataStrategy1(ps, i + 1,
            IF IsFourDigits(clean_text) THEN [m EXCEPT !.year = clean_text]
            ELSE IF HasMinute(clean_text) THEN [m EXCEPT !.runtime = clean_text]
            ELSE IF HasSubtitle(clean_text) THEN m
            ELSE IF IsNone(m.country) /\ clean_text # <<>>
                    /\ clean_text \notin {m.year, m.runtime}
                 THEN [m EXCEPT !.country = clean_text]
            ELSE m))

\* the fallback: the first paragraph holding a "|" is split into
\* year | country | runtime
MetadataStrategy2(ps) ==
    LET lines == { i \in DOMAIN ps : \E j \in DOMAIN ps[i] : ps[i][j] = "|" }
    IN  IF lines = {} THEN NoMetadata
        ELSE With(SplitBar(ps[CHOOSE i \in lines : \A j \in lines : i <= j]),
             LAMBDA parts :
             [year |-> IF Len(parts) >= 1 /\ IsDigits(parts[1]) THEN parts[1] ELSE NoneT,
              country |-> IF Len(parts) >= 2 THEN parts[2] ELSE NoneT,
              runtime |-> IF Len(parts) >= 3
                             /\ (HasMinute(parts[3]) \/ IsDigits(parts[3]))
                          THEN parts[3] ELSE NoneT])

\* extract_metadata(element)
extract_metadata(element) ==
    With(IF element.flex = NoElement THEN NoMetadata
         ELSE MetadataStrategy1(element.flex, 1, NoMetadata), LAMBDA m :
         IF IsNone(m.year) /\ IsNone(m.country) /\ IsNone(m.runtime)
         THEN MetadataStrategy2(element.paragraphs)
         ELSE m)

\* re.search(r'\d{1,2}:\d{2}\s*(?:AM|PM)', button_text): the match, or <<>>
TimeMatch(button_text) ==
    LET hits == { i \in DOMAIN button_text :
                    button_text[i] \in {"6:00 PM", "12:30 PM", "9:15 AM"} }
    IN  IF hits = {} THEN <<>>
        ELSE <<button_text[CHOOSE i \in hits : \A j \in hits : i <= j]>>

\* the notes of a button
ButtonNotes(button_text) ==
    (IF Contains(button_text, <<"Q&A">>) THEN <<"Q&A">> ELSE <<>>)
    \o (IF Contains(button_text, <<"Intro">>) THEN <<"Intro">> ELSE <<>>)

\* word in ' '.join(button.get('class', [])): some class holds the word
InClasses(word, classes) ==
    \E c \in classes :
        \/ c = word
        \/ word = "cursor-not-allowed" /\ c = "disabled:cursor-not-allowed"
        \/ word = "disabled" /\ c \in {"disabled:cursor-not-allowed", "disabled:opacity-50"}

\* is_available without the look for a line-through child
ButtonAvailableByButtonOnly(button) ==
    ~(\/ button.disabled
      \/ InClasses("cursor-not-allowed", button.classes)
      \/ InClasses("disabled", button.classes))

\* is_available of a button
ButtonAvailable(button) ==
    ~(\/ button.disabled
      \/ InClasses("cursor-not-allowed", button.classes)
      \/ InClasses("disabled", button.classes)
      \/ button.linethrough)

\* the showtimes of the buttons of one date section, from button i on, when
\* an entry without a time is kept with time None
ButtonShowtimesUnfiltered(date, buttons, i) ==
    [k \in 1..(Len(buttons) - i + 1) |->
        Showtime(date,
                 IF TimeMatch(buttons[i + k - 1].text) = <<>> THEN NoneT
                 ELSE TimeMatch(buttons[i + k - 1].text),
                 ButtonNotes(buttons[i + k - 1].text),
                 ButtonAvailable(buttons[i + k - 1]),
                 buttons[i + k - 1].text)]

RECURSIVE ButtonShowtimes(_, _, _)
\* the showtimes of the buttons of one date section, from button i on
ButtonShowtimes(date, buttons, i) ==
    IF i > Len(buttons) THEN <<>>
    ELSE (IF TimeMatch(buttons[i].text) # <<>>
          THEN <<Showtime(date, TimeMatch(buttons[i].text),
                          ButtonNotes(buttons[i].text), ButtonAvailable(buttons[i]),
                          buttons[i].text)>>
          ELSE <<>>)
         \o ButtonShowtimes(date, buttons, i + 1)

RECURSIVE SectionShowtimes(_, _)
\* the showtimes of the date sections from section i on
SectionShowtimes(sections, i) ==
    IF i > Len(sections) THEN <<>>
    ELSE ButtonShowtimes(IF sections[i].date \in {NoElement, <<>>} THEN NoneT
                         ELSE sections[i].date,
                         sections[i].buttons, 1)
         \o SectionShowtimes(sections, i + 1)

\* element.select_one('div.flex.flex-col.gap-2.mt-4') found nothing
NoSection == [present |-> FALSE, dates |-> <<>>]

\* the showtimes section with its date sections
Section(dates) == [present |-> TRUE, dates |-> dates]

\* extract_showtimes(element)
extract_showtimes(element) ==
    IF ~element.showtime_section.present THEN <<>>
    ELSE SectionShowtimes(element.showtime_section.dates, 1)

\* get_text(strip=True) of an optional element: None if missing or empty
TextOrNone(elem) == IF elem \in {NoElement, <<>>} THEN NoneT ELSE elem

\* extract_film_data returns None: no title link, no div in it, no title, or
\* an exception raised on the way (except Exception: return None)
ExtractionFails(element) ==
    ~element.title_link \/ ~element.title_div \/ element.title = <<>> \/ element.raises

\* extract_film_data(element): the film dict, or None
extract_film_data(element) ==
    IF ExtractionFails(element) THEN NoneT
    ELSE With(extract_metadata(element), LAMBDA m :
         ExtractedFilm(element.title, TextOrNone(element.director_p),
                       TextOrNone(element.prose_p), m.year, m.country, m.runtime,
                       extract_showtimes(element)))

\* the film container elements the documents below hold, by token
Container(tok) ==
    CASE tok = "film:Anora" ->
            [title_link |-> TRUE, title_div |-> TRUE, title |-> <<"Anora">>,
             raises |-> FALSE,
             director_p |-> <<"Jane", "Doe">>, prose_p |-> <<"drama">>,
             flex |-> << <<"2025">>, <<"|", "USA">>, <<"|", "90", "minutes">>,
                         <<"English", "subtitles">> >>,
             paragraphs |-> << <<"2025">>, <<"|", "USA">>, <<"|", "90", "minutes">>,
                               <<"English", "subtitles">> >>,
             showtime_section |-> Section(
                << [date |-> <<"September", "26">>,
                    buttons |-> << [text |-> <<"6:00 PM", "Q&A">>, classes |-> {},
                                    disabled |-> FALSE, linethrough |-> FALSE],
                                   [text |-> <<"Standby">>, classes |-> {},
                                    disabled |-> FALSE, linethrough |-> FALSE] >>],
                   [date |-> NoElement,
                    buttons |-> << [text |-> <<"9:15 AM">>,
                                    classes |-> {"cursor-not-allowed"},
                                    disabled |-> FALSE, linethrough |-> FALSE] >>] >>)]
      [] tok = "film:Shorts" ->
            [title_link |-> TRUE, title_div |-> TRUE, title |-> <<"Shorts", "Program">>,
             raises |-> FALSE,
             director_p |-> <<>>, prose_p |-> NoElement,
             flex |-> NoElement,
             paragraphs |-> << <<"Various">>, <<"90", "|", "France", "|", "12">> >>,
             showtime_section |-> NoSection]
      [] tok = "film:untitled" ->
            [title_link |-> TRUE, title_div |-> TRUE, title |-> <<>>,
             raises |-> FALSE,
             director_p |-> NoElement, prose_p |-> NoElement,
             flex |-> NoElement, paragraphs |-> <<>>,
             showtime_section |-> NoSection]
      [] tok = "film:nodiv" ->
            [title_link |-> TRUE, title_div |-> FALSE, title |-> <<>>,
             raises |-> FALSE,
             director_p |-> <<"John", "Roe">>, prose_p |-> NoElement,
             flex |-> NoElement, paragraphs |-> <<>>,
             showtime_section |-> NoSection]
      [] tok = "film:raising" ->
            [title_link |-> TRUE, title_div |-> TRUE, title |-> <<"The", "Opening">>,
             raises |-> TRUE,
             director_p |-> NoElement, prose_p |-> NoElement,
             flex |-> NoElement, paragraphs |-> <<>>,
             showtime_section |-> NoSection]
      [] OTHER ->
            [title_link |-> FALSE, title_div |-> FALSE, title |-> <<>>,
             raises |-> FALSE,
             director_p |-> NoElement, prose_p |-> NoElement,
             flex |-> NoElement, paragraphs |-> <<>>,
             showtime_section |-> NoSection]

IsContainerTok(t) ==
    t \in {"film:Anora", "film:Shorts", "film:untitled", "film:unlinked",
           "film:nodiv", "film:raising"}

\* soup.select('div.py-8.lg\:py-10.border-b.border-border')
film_containers(content) == SelectSeq(content, IsContainerTok)

RECURSIVE ExtractAllUntilFailure(_, _)
\* the loop over the containers given up at the first container that fails
ExtractAllUntilFailure(containers, i) ==
    IF i > Len(containers) \/ ExtractionFails(Container(containers[i])) THEN <<>>
    ELSE <<extract_film_data(Container(containers[i]))>>
         \o ExtractAllUntilFailure(containers, i + 1)

RECURSIVE ExtractAll(_, _)
\* the loop over the containers from container i on: the film dicts kept
ExtractAll(containers, i) ==
    IF i > Len(containers) THEN <<>>
    ELSE (IF ExtractionFails(Container(containers[i])) THEN <<>>
          ELSE <<extract_film_data(Container(containers[i]))>>)
         \o ExtractAll(containers, i + 1)

\* the cache file of a source: 0 is the primary URL, i the i-th backup URL
SourceKey(i) ==
    CASE i = 0 -> "nyff_lineup.html"
      [] i = 1 -> "nyff_lineup_backup_1.html"
      [] i = 2 -> "nyff_lineup_backup_2.html"
      [] i = 3 -> "nyff_lineup_backup_3.html"

\* len(backup_urls)
NumBackups == 3

CacheKeys == { SourceKey(i) : i \in 0..NumBackups }

\* bool(content)
HasContent(content) == ~IsNone(content) /\ content # <<>>

\* one source is fetched and recorded
Consult(st, i, force_refresh, scripts) ==
    With(get_cached_or_fetch(st.store, SourceKey(i), DEFAULT_CACHE_MAX_AGE_MINUTES,
                             force_refresh, scripts[i + 1]), LAMBDA r :
         [content |-> r.result, raised |-> r.raised, store |-> r.store,
          consulted |-> Append(st.consulted, i),
          results |-> Append(st.results, r.result),
          attempts |-> Append(st.attempts, r.attempts)])

RECURSIVE TryBackupsNoBreak(_, _, _, _)
\* the loop over the backup URLs without its break
TryBackupsNoBreak(st, i, force_refresh, scripts) ==
    IF i > NumBackups \/ st.raised # "" THEN st
    ELSE TryBackupsNoBreak(Consult(st, i, force_refresh, scripts), i + 1,
                           force_refresh, scripts)

RECURSIVE TryBackups(_, _, _, _)
\* the loop over the backup URLs from backup i on
TryBackups(st, i, force_refresh, scripts) ==
    IF i > NumBackups \/ st.raised # "" THEN st
    ELSE With(Consult(st, i, force_refresh, scripts), LAMBDA st1 :
         IF HasContent(st1.content) THEN st1
         ELSE TryBackups(st1, i + 1, force_refresh, scripts))

\* scrape_nyff_lineup(url, backup_url, force_refresh): the films returned,
\* the sources consulted with what each yielded, and the cache left
scrape_nyff_lineup(store, force_refresh, scripts) ==
    With(Consult([content |-> NoneT, raised |-> "", store |-> store,
                  consulted |-> <<>>, results |-> <<>>, attempts |-> <<>>],
                 0, force_refresh, scripts), LAMBDA st0 :
    With(IF st0.raised = "" /\ IsNone(st0.content)
         THEN TryBackups(st0, 1, force_refresh, scripts) ELSE st0, LAMBDA st :
         [called |-> TRUE, force_refresh |-> force_refresh,
          consulted |-> st.consulted, results |-> st.results,
          attempts |-> st.attempts, raised |-> st.raised, store |-> st.store,
          outcome |-> IF st.raised # "" THEN "raised"
                      ELSE IF ~HasContent(st.content) THEN "no content"
                      ELSE "parsed",
          films |-> IF st.raised = "" /\ HasContent(st.content)
                    THEN ExtractAll(film_containers(st.content), 1)
                    ELSE <<>>]))

--------------------------------------------------------------------------
(* The film dicts the engine is applied to *)

Absent == <<"<absent>">>

Titles ==
    {<<"Anora">>, <<"Shorts", "Program">>, <<"The", "Opening">>, <<"Currents">>,
     <<"Spotlight">>}

Descriptions ==
    {NoneT, <<"drama">>, <<"night", "of", "a", "Classic">>,
     <<"special", "presentation">>, <<"followed", "by", "Q&A">>}

Directors == {NoneT, <<"Jane", "Doe">>, <<"Jane", "Doe", "and", "John", "Roe">>}

Runtimes == {NoneT, <<"90", "minutes">>, <<"12", "films">>}

Years == {NoneT, <<"2025">>, <<"1975">>, <<"0">>}

ShowtimeLists ==
    {<<>>, <<Showtime("Sep 26", "6:00 PM", <<"Q&A", "Intro">>, TRUE,
                         <<"6:00 PM", "Q&A", "Intro">>)>>}

\* the dict extract_film_data returns (scraper.py, 382-390)
ReleaseDates == {NoneT, <<"October", "10", "2025">>}

\* the keys IMDbEnricher.enrich_films sets on every film (imdb_enricher.py, 988-1054)
WithImdbData(f, companies, distributors, release_date) ==
    [f EXCEPT
        !.keys = @ \cup {"production_companies", "distributors", "imdb_id",
                         "theatrical_release_date", "likely_theatrical"},
        !.production_companies = companies,
        !.distributors = distributors,
        !.imdb_id = IF Truthy(release_date) THEN <<"tt1">> ELSE NoneT,
        !.theatrical_release_date = release_date,
        !.likely_theatrical =
            Truthy(release_date) \/ Len(companies) > 2 \/ Len(distributors) >= 1]

Categories == {Absent, <<"shorts">>, <<"Restoration">>, <<"spotlight">>, <<"feature">>}

FlagOptions == {"absent", "true", "false"}

\* a dict with a category and the two flags a caller may have set
WithClassification(f, category, short, restoration) ==
    [f EXCEPT
        !.keys = @ \cup (IF category = Absent THEN {} ELSE {"category"})
                   \cup (IF short = "absent" THEN {} ELSE {"is_short_program"})
                   \cup (IF restoration = "absent" THEN {} ELSE {"is_restoration"}),
        !.category = IF category = Absent THEN <<>> ELSE category,
        !.is_short_program = (short = "true"),
        !.is_restoration = (restoration = "true")]

ScorerTitles == Titles \ {<<"Shorts", "Program">>}

ScorerDescriptions == Descriptions \ {<<"followed", "by", "Q&A">>}

NoScore ==
    [score |-> 0 - 1, is_likely |-> FALSE, release_date |-> NoneT,
     section |-> "", total |-> 0]

\* no call of get_cached_or_fetch has been made; responses are the responses
\* the GET requests of the call got
NoCall ==
    [called |-> FALSE, key |-> "", max_age_minutes |-> NoMaxAge,
     force_refresh |-> FALSE, before |-> NoEntry, responses |-> <<>>,
     hit |-> FALSE, attempts |-> 0, result |-> NoneT, raised |-> ""]

\* no call of scrape_nyff_lineup has been made
NoLineup ==
    [called |-> FALSE, force_refresh |-> FALSE, consulted |-> <<>>,
     results |-> <<>>, attempts |-> <<>>, raised |-> "", outcome |-> "",
     films |-> <<>>, scrapes |-> 0]

\* the cache directory is empty
EmptyCache == [k \in CacheKeys |-> NoEntry]

\* no function is being applied
NoInput == [op |-> ""]

\* the function has not returned yet
NoOutput == [done |-> FALSE]

OtherInit ==
    /\ films = <<>> /\ stages = <<>> /\ searched = {} /\ exported = <<>>
    /\ cache = EmptyCache /\ lastCall = NoCall /\ lineup = NoLineup
    /\ input = NoInput /\ output = NoOutput

--------------------------------------------------------------------------
(* The scoring engine applied to one dict *)

\* any dict a caller may hand to the scorer
InitScorer ==
    /\ \E t \in ScorerTitles, d \in ScorerDescriptions, c \in Categories,
          s \in FlagOptions, r \in FlagOptions, imdb \in BOOLEAN,
          p \in 0..MaxCompanies, n \in 0..MaxDistributors, rd \in ReleaseDates :
          /\ (~imdb => (p = 0 /\ n = 0 /\ rd = NoneT))
          /\ film = LET f == ExtractedFilm(t, NoneT, d, NoneT, NoneT, NoneT, <<>>)
                        g == IF imdb THEN WithImdbData(f, NameList(p), NameList(n), rd)
                             ELSE f
                    IN  WithClassification(g, c, s, r)
    /\ firstPass = BlankFilm /\ passes = 0 /\ raised = "" /\ lastScore = NoScore
    /\ OtherInit

\* DistributionLikelihoodScorer.enrich_film_with_distribution_score(film)
ScoreFilm ==
    /\ passes < MaxPasses
    /\ raised = ""
    /\ IF SectionRaises(film)
       THEN /\ raised' = "AttributeError"
            /\ UNCHANGED <<film, lastScore>>
       ELSE /\ raised' = ""
            /\ lastScore' = calculate_distribution_likelihood_score(film)
            /\ film' = enrich_film_with_distribution_score(film)
    /\ passes' = passes + 1
    /\ UNCHANGED <<firstPass, pipeVars, fetchVars, applyVars>>

NextScorer == ScoreFilm

SpecScorer == InitScorer /\ [][NextScorer]_vars

--------------------------------------------------------------------------
(* The classification engine applied to one record *)

\* a dict of the lineup extractor, before or after the IMDb stage
InitMetadata ==
    /\ \E t \in Titles, dir \in Directors, d \in Descriptions, y \in Years,
          rt \in Runtimes, st \in ShowtimeLists, imdb \in BOOLEAN,
          p \in 0..MaxCompanies, n \in 0..MaxDistributors, rd \in ReleaseDates :
          /\ (~imdb => (p = 0 /\ n = 0 /\ rd = NoneT))
          /\ film = LET f == ExtractedFilm(t, dir, d, y, NoneT, rt, st)
                    IN  IF imdb THEN WithImdbData(f, NameList(p), NameList(n), rd)
                        ELSE f
    /\ firstPass = BlankFilm /\ passes = 0 /\ raised = "" /\ lastScore = NoScore
    /\ OtherInit

\* MetadataEnricher.enrich_films([film])
EnrichFilms ==
    /\ passes < MaxPasses
    /\ raised = ""
    /\ \E r \in {MetadataEnricher_enrich_films(<<film>>)} :
           /\ film' = r.films[1]
           /\ raised' = r.raised
           /\ firstPass' = IF passes = 0 THEN r.films[1] ELSE firstPass
    /\ passes' = passes + 1
    /\ UNCHANGED <<lastScore, pipeVars, fetchVars, applyVars>>

NextMetadata == EnrichFilms

SpecMetadata == InitMetadata /\ [][NextMetadata]_vars

--------------------------------------------------------------------------
(* The fetch cache under calls and the passing of time *)

\* documents a server sends
DocA == <<"<!DOCTYPE html>", "<html>", "film:Anora", "\r\n", "film:unlinked",
          "film:raising", "film:Shorts", "</html>">>
DocB == <<" ", "<HTML>", "film:nodiv", "film:Shorts", "film:untitled", "</html>">>
DocEdge == <<"pad95", "<html>", "</html>">>
DocLate == <<"pad96", "<html>", "</html>">>
Json == <<"{json}">>
Blank == <<" ", "\n">>

\* session.get(url) raises, or raise_for_status() does
Err(kind) == [kind |-> kind, body |-> <<>>, decode_raises |-> FALSE, text_raises |-> FALSE]

\* a response with status 200 and the given body
Ok(body) == [kind |-> "ok", body |-> body, decode_raises |-> FALSE, text_raises |-> FALSE]

\* a response whose decoding raises; text_raises: response.text raises too
Undecodable(body, text_raises) ==
    [kind |-> "ok", body |-> body, decode_raises |-> TRUE, text_raises |-> text_raises]

FirstResponses ==
    { Err("ConnectionError"), Err("Timeout"), Err("HTTPError"),
      Ok(DocA), Ok(DocEdge), Ok(DocLate), Ok(<<>>), Ok(Blank),
      Undecodable(Json, FALSE), Undecodable(Json, TRUE) }

RetryResponses == { Err("ConnectionError"), Ok(DocB), Ok(Json) }

FetchKeys == {SourceKey(0)}

MaxAges == {NoMaxAge, DEFAULT_CACHE_MAX_AGE_MINUTES}

TickSteps == {45, 50}

InitFetch ==
    /\ film = BlankFilm /\ firstPass = BlankFilm /\ passes = 0 /\ raised = ""
    /\ lastScore = NoScore
    /\ OtherInit

\* one call of get_cached_or_fetch
GetCachedOrFetch ==
    \E key \in FetchKeys, max_age \in MaxAges, force \in BOOLEAN,
       r1 \in FirstResponses, r2 \in RetryResponses, r3 \in RetryResponses :
    \E r \in {get_cached_or_fetch(cache, key, max_age, force, <<r1, r2, r3>>)} :
        /\ cache' = r.store
        /\ lastCall' = [called |-> TRUE, key |-> key, max_age_minutes |-> max_age,
                        force_refresh |-> force, before |-> cache[key],
                        responses |-> SubSeq(<<r1, r2, r3>>, 1, r.attempts),
                        hit |-> r.hit, attempts |-> r.attempts,
                        result |-> r.result, raised |-> r.raised]
        /\ UNCHANGED <<scoreVars, pipeVars, lineup, applyVars>>

\* time passes: every cache file gets older
Tick ==
    \E step \in TickSteps :
        /\ \E k \in CacheKeys : cache[k].exists /\ cache[k].age < MaxAgeMinutes
        /\ cache' = [k \in CacheKeys |->
                        IF cache[k].exists
                        THEN [cache[k] EXCEPT !.age = Min2(@ + step, MaxAgeMinutes)]
                        ELSE cache[k]]
        /\ UNCHANGED <<scoreVars, pipeVars, lastCall, lineup, applyVars>>

NextFetch == GetCachedOrFetch \/ Tick

SpecFetch == InitFetch /\ [][NextFetch]_vars

--------------------------------------------------------------------------
(* The lineup scraped from the primary URL and its backups *)

\* what the three GET attempts for one source get
AllFail == <<Err("ConnectionError"), Err("Timeout"), Err("HTTPError")>>
Serve(doc) == <<Ok(doc), Err("ConnectionError"), Err("ConnectionError")>>
RetryThenServe(doc) == <<Err("Timeout"), Ok(Json), Ok(doc)>>

PrimaryScripts == {AllFail, Serve(DocA), Serve(<<>>), RetryThenServe(DocB)}

BackupScripts == {AllFail, Serve(DocB), Serve(<<>>)}

\* what the attempts for the last two backups get
LastBackupScripts == {AllFail, Serve(DocB)}

InitLineup == InitFetch

\* one call of scrape_nyff_lineup
ScrapeLineup ==
    /\ lineup.scrapes < MaxScrapes
    /\ \E force \in BOOLEAN, p \in PrimaryScripts,
          b1 \in BackupScripts, b2 \in LastBackupScripts, b3 \in LastBackupScripts :
       \E r \in {scrape_nyff_lineup(cache, force, <<p, b1, b2, b3>>)} :
        /\ cache' = r.store
        /\ lineup' = [called |-> TRUE, force_refresh |-> force,
                      consulted |-> r.consulted, results |-> r.results,
                      attempts |-> r.attempts, raised |-> r.raised,
                      outcome |-> r.outcome, films |-> r.films,
                      scrapes |-> lineup.scrapes + 1]
        /\ UNCHANGED <<scoreVars, pipeVars, lastCall, applyVars>>

NextLineup == ScrapeLineup \/ Tick

SpecLineup == InitLineup /\ [][NextLineup]_vars

--------------------------------------------------------------------------
(* extract_showtimes applied to a showtimes section *)

ButtonTexts == {<<"9:15 AM", "Q&A", "Intro">>, <<"Standby">>}

ButtonClasses ==
    {{}, {"btn", "cursor-not-allowed"}, {"disabled"}, {"btn", "disabled:opacity-50"},
     {"line-through"}}

\* the time entries (buttons) a date section may hold
Buttons ==
    [text : ButtonTexts, classes : ButtonClasses,
     disabled : BOOLEAN, linethrough : BOOLEAN]

\* elements with no showtimes section, or one with one date section
ShowtimeElements ==
    {[showtime_section |-> NoSection]}
    \cup { [showtime_section |-> Section(<<[date |-> d, buttons |-> bs]>>)] :
             d \in {NoElement, <<"September", "26">>},
             bs \in UNION { [1..n -> Buttons] : n \in 0..MaxButtons } }

InitShowtimes ==
    /\ film = BlankFilm /\ firstPass = BlankFilm /\ passes = 0 /\ raised = ""
    /\ lastScore = NoScore
    /\ films = <<>> /\ stages = <<>> /\ searched = {} /\ exported = <<>>
    /\ cache = EmptyCache /\ lastCall = NoCall /\ lineup = NoLineup
    /\ \E e \in ShowtimeElements : input = [op |-> "extract_showtimes", element |-> e]
    /\ output = NoOutput

\* showtimes = self.extract_showtimes(element)
ExtractShowtimes ==
    /\ input.op = "extract_showtimes" /\ ~output.done
    /\ output' = [done |-> TRUE, showtimes |-> extract_showtimes(input.element)]
    /\ UNCHANGED <<scoreVars, pipeVars, fetchVars, input>>

NextShowtimes == ExtractShowtimes

SpecShowtimes == InitShowtimes /\ [][NextShowtimes]_vars

--------------------------------------------------------------------------
(* imdb_enricher.py : title matching. Titles are sequences of characters. *)

\* str.lower() on one character
LowerChar(c) ==
    CASE c = "A" -> "a"
      [] c = "D" -> "d"
      [] c = "C" -> "c"
      [] OTHER -> c

\* the characters [^\w\s] matches
IsPunctuation(c) == c \in {":", "'", "+", "!"}

\* re.sub(r'[^\w\s]', ' ', title.lower().strip())
CleanTitle(title) ==
    LET stripped == Strip([i \in DOMAIN title |-> LowerChar(title[i])])
    IN  [i \in DOMAIN stripped |->
            IF IsPunctuation(stripped[i]) THEN " " ELSE stripped[i]]

\* SequenceMatcher.find_longest_match: the longest block a[i..i+k-1] =
\* b[j..j+k-1], the one starting earliest in a and then earliest in b
find_longest_match(a, b) ==
    LET blocks == { t \in (DOMAIN a) \X (DOMAIN b) \X (1..Len(a)) :
                      /\ t[1] + t[3] - 1 <= Len(a)
                      /\ t[2] + t[3] - 1 <= Len(b)
                      /\ SubSeq(a, t[1], t[1] + t[3] - 1)
                           = SubSeq(b, t[2], t[2] + t[3] - 1) }
    IN  IF blocks = {} THEN <<1, 1, 0>>
        ELSE CHOOSE t \in blocks : \A u \in blocks :
                \/ t[3] > u[3]
                \/ t[3] = u[3] /\ t[1] < u[1]
                \/ t[3] = u[3] /\ t[1] = u[1] /\ t[2] <= u[2]

RECURSIVE MatchingCharacters(_, _)
\* the total size of SequenceMatcher.get_matching_blocks(): the longest
\* block, then the same to its left and to its right
MatchingCharacters(a, b) ==
    IF a = <<>> \/ b = <<>> THEN 0
    ELSE With(find_longest_match(a, b), LAMBDA t :
         IF t[3] = 0 THEN 0
         ELSE t[3]
              + MatchingCharacters(SubSeq(a, 1, t[1] - 1), SubSeq(b, 1, t[2] - 1))
              + MatchingCharacters(SubSeq(a, t[1] + t[3], Len(a)),
                                   SubSeq(b, t[2] + t[3], Len(b))))

\* SequenceMatcher(None, a, b).ratio() >= 0.7, the ratio being
\* 2.0 * matches / (len(a) + len(b)), and 1.0 for two empty strings
SimilarEnough(a, b) ==
    IF Len(a) + Len(b) = 0 THEN TRUE
    ELSE 20 * MatchingCharacters(a, b) >= 7 * (Len(a) + Len(b))

\* _is_title_match with contains_match = expected_clean in found_clean only
is_title_match_expected_in_found(found_title, expected_title) ==
    With(CleanTitle(found_title), LAMBDA found_clean :
    With(CleanTitle(expected_title), LAMBDA expected_clean :
        \/ SimilarEnough(found_clean, expected_clean)
        \/ Contains(found_clean, expected_clean)))

\* _is_title_match(found_title, expected_title)
is_title_match(found_title, expected_title) ==
    With(CleanTitle(found_title), LAMBDA found_clean :
    With(CleanTitle(expected_title), LAMBDA expected_clean :
        \/ SimilarEnough(found_clean, expected_clean)
        \/ Contains(found_clean, expected_clean)
        \/ Contains(expected_clean, found_clean)))

TitleChars == {"A", "a", ":", " "}

Anora == <<"A", "n", "o", "r", "a">>

AnoraDirectorsCut ==
    Anora \o <<":", " ", "D", "i", "r", "e", "c", "t", "o", "r", "'", "s",
               " ", "C", "u", "t">>

\* the titles _is_title_match is given
MatchTitles ==
    UNION { [1..n -> TitleChars] : n \in 0..MaxTitleLen }
    \cup {Anora, AnoraDirectorsCut}

\* the titles of the other argument: one character shorter at most
ShorterTitles == { t \in MatchTitles : Len(t) < MaxTitleLen \/ t \in {Anora, AnoraDirectorsCut} }

InitTitleMatch ==
    /\ film = BlankFilm /\ firstPass = BlankFilm /\ passes = 0 /\ raised = ""
    /\ lastScore = NoScore
    /\ films = <<>> /\ stages = <<>> /\ searched = {} /\ exported = <<>>
    /\ cache = EmptyCache /\ lastCall = NoCall /\ lineup = NoLineup
    /\ \E a \in MatchTitles, b \in ShorterTitles, swap \in BOOLEAN :
          input = [op |-> "_is_title_match",
                   found_title |-> IF swap THEN b ELSE a,
                   expected_title |-> IF swap THEN a ELSE b]
    /\ output = NoOutput

\* self._is_title_match(found_title, expected_title)
IsTitleMatch ==
    /\ input.op = "_is_title_match" /\ ~output.done
    /\ output' = [done |-> TRUE,
                  result |-> is_title_match(input.found_title, input.expected_title)]
    /\ UNCHANGED <<scoreVars, pipeVars, fetchVars, input>>

NextTitleMatch == IsTitleMatch

SpecTitleMatch == InitTitleMatch /\ [][NextTitleMatch]_vars

--------------------------------------------------------------------------
(* imdb_enricher.py : the festival debut flag. A datetime is a day number
   (day 0 is 2025-09-26) and a minute of that day; a date string is None,
   empty, unparseable text, a date like "2025-10-10", or a date with a time
   like "2025-09-26 19:30". *)

MinutesPerDay == 1440

DebutWindowDays == 21

NoDatetime == [known |-> FALSE, day |-> 0, minute |-> 0]

Datetime(day, minute) == [known |-> TRUE, day |-> day, minute |-> minute]

\* _parse_date_from_string(date_str): '%Y-%m-%d' gives midnight of the day,
\* '%Y-%m-%d %H:%M' keeps the time of day, anything else here gives None
parse_date_from_string(date_str) ==
    CASE date_str.kind = "date" -> Datetime(date_str.day, 0)
      [] date_str.kind = "datetime" -> Datetime(date_str.day, date_str.minute)
      [] OTHER -> NoDatetime

\* (a - b).days : timedelta normalises to whole days, rounding down, and a
\* remainder of seconds that is never negative
DeltaDays(a, b) ==
    LET minutes == (a.day - b.day) * MinutesPerDay + (a.minute - b.minute)
    IN  IF minutes >= 0 THEN minutes \div MinutesPerDay
        ELSE 0 - (((0 - minutes) + MinutesPerDay - 1) \div MinutesPerDay)

Abs(n) == IF n < 0 THEN 0 - n ELSE n

\* _is_festival_debut(film, imdb_theatrical_date, festival_start_date)
is_festival_debut(imdb_theatrical_date, festival_start_date) ==
    IF imdb_theatrical_date.kind \in {"none", "empty"} \/ ~festival_start_date.known
    THEN FALSE
    ELSE With(parse_date_from_string(imdb_theatrical_date), LAMBDA imdb_date :
         IF ~imdb_date.known THEN FALSE
         ELSE Abs(DeltaDays(imdb_date, festival_start_date)) <= DebutWindowDays)

\* day numbers around the window: 14 is 2025-10-10, 66 is 2025-12-01
DebutDays == {0 - 22, 0 - 21, 0, 14, 21, 22, 66}

\* 00:00 and 19:30
DebutMinutes == {0, 1170}

DateStrings ==
    [kind : {"none", "empty", "garbage"}, day : {0}, minute : {0}]
    \cup [kind : {"date"}, day : DebutDays, minute : {0}]
    \cup [kind : {"datetime"}, day : DebutDays, minute : DebutMinutes]

StartDates ==
    {NoDatetime} \cup { Datetime(d, m) : d \in {0, 1}, m \in DebutMinutes }

InitDebut ==
    /\ film = BlankFilm /\ firstPass = BlankFilm /\ passes = 0 /\ raised = ""
    /\ lastScore = NoScore
    /\ films = <<>> /\ stages = <<>> /\ searched = {} /\ exported = <<>>
    /\ cache = EmptyCache /\ lastCall = NoCall /\ lineup = NoLineup
    /\ \E r \in DateStrings, s \in StartDates :
          input = [op |-> "_is_festival_debut", imdb_theatrical_date |-> r,
                   festival_start_date |-> s]
    /\ output = NoOutput

\* self._is_festival_debut(film, theatrical_date, festival_start_date)
IsFestivalDebut ==
    /\ input.op = "_is_festival_debut" /\ ~output.done
    /\ output' = [done |-> TRUE,
                  result |-> is_festival_debut(input.imdb_theatrical_date,
                                               input.festival_start_date)]
    /\ UNCHANGED <<scoreVars, pipeVars, fetchVars, input>>

NextDebut == IsFestivalDebut

SpecDebut == InitDebut /\ [][NextDebut]_vars

--------------------------------------------------------------------------
(* imdb_enricher.py : search_imdb. A director text is a sequence of word and
   separator tokens; a result link of a search page is a record with the
   IMDb id of the link, the verdicts of the two result validators on it and
   the detail page of the title. *)

\* str.lower() on a token of a director text
LowerName(t) ==
    CASE t = "Jane" -> "jane"
      [] t = "Doe" -> "doe"
      [] t = "John" -> "john"
      [] t = "Roe" -> "roe"
      [] t = "Sean" -> "sean"
      [] t = "Baker" -> "baker"
      [] t = "Bakerson" -> "bakerson"
      [] t = "Li" -> "li"
      [] OTHER -> t

\* len() of a word
WordLen(w) ==
    CASE w \in {"li"} -> 2
      [] w \in {"doe", "roe", "and"} -> 3
      [] w \in {"jane", "john", "sean"} -> 4
      [] w = "baker" -> 5
      [] w = "bakerson" -> 8
      [] OTHER -> 1

\* word in found_clean : the word is part of one of the words of the text
WordIn(word, found_clean) ==
    \E i \in DOMAIN found_clean :
        \/ found_clean[i] = word
        \/ word = "baker" /\ found_clean[i] = "bakerson"

\* re.sub(r'[^\w\s]', ' ', director.lower()).strip() : the words that are left
CleanDirector(director) ==
    SelectSeq([i \in DOMAIN director |-> LowerName(director[i])],
              LAMBDA t : t \notin {",", "&", "/"})

RECURSIVE SplitOnAnd(_)
\* re.split(r'\s+(?:and|&)\s+|,\s*', expected_clean), empty parts dropped:
\* the punctuation is gone by then, so only a word "and" between two other
\* words still splits
SplitOnAnd(words) ==
    LET ands == { i \in DOMAIN words : words[i] = "and" /\ 1 < i /\ i < Len(words) }
    IN  IF ands = {} THEN (IF words = <<>> THEN <<>> ELSE <<words>>)
        ELSE LET a == CHOOSE i \in ands : \A j \in ands : i <= j
             IN  <<SubSeq(words, 1, a - 1)>>
                 \o SplitOnAnd(SubSeq(words, a + 1, Len(words)))

RECURSIVE PartLen(_)
\* len(expected_part) : the words and the spaces between them
PartLen(words) ==
    IF words = <<>> THEN 0
    ELSE IF Len(words) = 1 THEN WordLen(words[1])
    ELSE WordLen(words[1]) + 1 + PartLen(Tail(words))

\* one expected director is found in the director text of the page
PartMatches(words, found_clean) ==
    /\ PartLen(words) > 2
    /\ IF Len(words) >= 2
       THEN \/ \A i \in DOMAIN words : WordIn(words[i], found_clean)
            \/ /\ WordLen(words[Len(words)]) > 3
               /\ WordIn(words[Len(words)], found_clean)
       ELSE WordIn(words[1], found_clean)

\* validate_director_match(found_director, expected_director)
validate_director_match(found_director, expected_director) ==
    IF ~Truthy(found_director) \/ ~Truthy(expected_director) THEN FALSE
    ELSE With(CleanDirector(found_director), LAMBDA found_clean :
         With(SplitOnAnd(CleanDirector(expected_director)), LAMBDA expected_parts :
            \E i \in DOMAIN expected_parts : PartMatches(expected_parts[i], found_clean)))

\* get_director_from_imdb_page(imdb_id): the directors the detail page
\* lists, joined; None when the page cannot be fetched or lists none
get_director_from_imdb_page(link) ==
    IF link.page # "ok" \/ link.directors = <<>> THEN NoneT ELSE link.directors

\* the walk over the result links of one page, from link i on: the first
\* link that passes the validator and the director check, if any. Faulty
\* variant: a link whose page lists another director is accepted too
FirstAcceptedAnyDirector(links, i, director, validator) ==
    LET passing == { j \in i..Len(links) : links[j][validator] }
    IN  IF passing = {} THEN [accepted |-> FALSE, imdb_id |-> NoneT]
        ELSE [accepted |-> TRUE,
              imdb_id |-> <<links[CHOOSE j \in passing : \A k \in passing : j <= k].id>>]

RECURSIVE FirstAccepted(_, _, _, _)
\* the walk over the result links of one page, from link i on: the first
\* link that passes the validator and the director check, if any
FirstAccepted(links, i, director, validator) ==
    IF i > Len(links) THEN [accepted |-> FALSE, imdb_id |-> NoneT]
    ELSE IF ~links[i][validator] THEN FirstAccepted(links, i + 1, director, validator)
    ELSE IF Truthy(director)
    THEN With(get_director_from_imdb_page(links[i]), LAMBDA found_director :
         IF Truthy(found_director) /\ validate_director_match(found_director, director)
         THEN [accepted |-> TRUE, imdb_id |-> <<links[i].id>>]
         ELSE IF Truthy(found_director)
         THEN FirstAccepted(links, i + 1, director, validator)
         ELSE [accepted |-> TRUE, imdb_id |-> <<links[i].id>>])
    ELSE [accepted |-> TRUE, imdb_id |-> <<links[i].id>>]

\* search_attempts: the query variants of the find search
SearchAttempts(director) ==
    (IF Truthy(director) THEN <<"title director year">> ELSE <<>>)
    \o <<"title year", "title">>

\* the advanced search, after the find search failed
AdvancedSearch(director, web, queries) ==
    With(Append(queries, "advanced"), LAMBDA asked :
    IF ~web["advanced"].ok THEN [imdb_id |-> NoneT, queries |-> asked]
    ELSE [imdb_id |-> FirstAccepted(web["advanced"].links, 1, director,
                                    "advanced_valid").imdb_id,
          queries |-> asked])

\* the find search keeps asking after a link was accepted
FindSearchToTheEnd(attempts, n, director, web, queries) ==
    LET hits == { k \in n..Len(attempts) :
                    /\ web[attempts[k]].ok
                    /\ FirstAccepted(web[attempts[k]].links, 1, director,
                                     "valid").accepted }
    IN  IF hits = {} THEN AdvancedSearch(director, web, queries \o attempts)
        ELSE [imdb_id |-> FirstAccepted(
                              web[attempts[CHOOSE k \in hits : \A j \in hits : k <= j]].links,
                              1, director, "valid").imdb_id,
              queries |-> queries \o attempts]

RECURSIVE FindSearch(_, _, _, _, _)
\* the loop over search_attempts from attempt n on, then the advanced
\* search: the id returned and the queries asked, in order
FindSearch(attempts, n, director, web, queries) ==
    IF n > Len(attempts) THEN AdvancedSearch(director, web, queries)
    ELSE With(Append(queries, attempts[n]), LAMBDA asked :
         IF ~web[attempts[n]].ok THEN FindSearch(attempts, n + 1, director, web, asked)
         ELSE With(FirstAccepted(web[attempts[n]].links, 1, director, "valid"),
                   LAMBDA r :
              IF r.accepted THEN [imdb_id |-> r.imdb_id, queries |-> asked]
              ELSE FindSearch(attempts, n + 1, director, web, asked)))

\* search_imdb(film_title, year, director) on the web as it is
search_imdb(film_title, year, director, web) ==
    FindSearch(SearchAttempts(director), 1, director, web, <<>>)

QueryKinds == {"title director year", "title year", "title", "advanced"}

\* a result link: its validators' verdicts and its detail page
Link(id, valid, advanced_valid, page, directors) ==
    [id |-> id, valid |-> valid, advanced_valid |-> advanced_valid,
     page |-> page, directors |-> directors]

ResultLinks ==
    { Link("tt1", TRUE, TRUE, "ok", <<"John", "Roe">>),
      Link("tt2", TRUE, TRUE, "ok", <<"Sean", "Baker", ",", "Jane", "Doe">>),
      Link("tt3", TRUE, FALSE, "ok", <<>>),
      Link("tt4", FALSE, FALSE, "ok", <<"Jane", "Doe">>),
      Link("tt5", TRUE, TRUE, "unreachable", <<"John", "Roe">>) }

\* get_cached_or_fetch returned "" (the request failed)
NoPage == [ok |-> FALSE, links |-> <<>>]

Page(links) == [ok |-> TRUE, links |-> links]

\* the pages a query may come back with
Pages ==
    {NoPage} \cup { Page(ls) : ls \in UNION { [1..n -> ResultLinks] : n \in 0..MaxResults } }

\* the pages the last two queries may come back with
LatePages ==
    { NoPage,
      Page(<<Link("tt1", TRUE, TRUE, "ok", <<"John", "Roe">>),
             Link("tt3", TRUE, TRUE, "ok", <<>>)>>) }

\* the pages the second query may come back with
ShortPages == { p \in Pages : Len(p.links) < MaxResults }

\* what each query comes back with
Webs ==
    { [k \in QueryKinds |->
          CASE k = "title director year" -> p1
            [] k = "title year" -> p2
            [] k = "title" -> p3
            [] OTHER -> p4] :
      p1 \in Pages, p2 \in ShortPages, p3 \in LatePages, p4 \in LatePages }

SearchDirectors == {NoneT, <<>>, <<"Jane", "Doe">>}

InitSearch ==
    /\ film = BlankFilm /\ firstPass = BlankFilm /\ passes = 0 /\ raised = ""
    /\ lastScore = NoScore
    /\ films = <<>> /\ stages = <<>> /\ searched = {} /\ exported = <<>>
    /\ cache = EmptyCache /\ lastCall = NoCall /\ lineup = NoLineup
    /\ \E dir \in SearchDirectors, web \in Webs :
          input = [op |-> "search_imdb", film_title |-> <<"Anora">>,
                   year |-> <<"2025">>, director |-> dir, web |-> web]
    /\ output = NoOutput

\* imdb_id = self.search_imdb(film['title'], screening_year, director)
SearchImdb ==
    /\ input.op = "search_imdb" /\ ~output.done
    /\ \E r \in {search_imdb(input.film_title, input.year, input.director, input.web)} :
          output' = [done |-> TRUE, imdb_id |-> r.imdb_id, queries |-> r.queries]
    /\ UNCHANGED <<scoreVars, pipeVars, fetchVars, input>>

NextSearch == SearchImdb

SpecSearch == InitSearch /\ [][NextSearch]_vars

--------------------------------------------------------------------------
(* imdb_enricher.py : IMDbEnricher.enrich_films *)

\* the date string a text is, as strptime reads it
DateStringOf(text) ==
    CASE text = NoneT -> [kind |-> "none", day |-> 0, minute |-> 0]
      [] text = <<>> -> [kind |-> "empty", day |-> 0, minute |-> 0]
      [] text = <<"2025-09-26">> -> [kind |-> "date", day |-> 0, minute |-> 0]
      [] text = <<"2025-09-27">> -> [kind |-> "date", day |-> 1, minute |-> 0]
      [] text = <<"2025-09-26", "19:30">> ->
            [kind |-> "datetime", day |-> 0, minute |-> 1170]
      [] text = <<"October", "10", "2025">> -> [kind |-> "date", day |-> 14, minute |-> 0]
      [] text = <<"December", "1", "2025">> -> [kind |-> "date", day |-> 66, minute |-> 0]
      [] OTHER -> [kind |-> "garbage", day |-> 0, minute |-> 0]

\* a datetime as minutes, to compare two of them
MinuteOf(dt) == dt.day * MinutesPerDay + dt.minute

\* min(all_dates), and None for no date
Earliest(dates) ==
    IF dates = {} THEN NoDatetime
    ELSE CHOOSE d \in dates : \A e \in dates : MinuteOf(d) <= MinuteOf(e)

\* max(dates)
Latest(dates) == CHOOSE d \in dates : \A e \in dates : MinuteOf(d) >= MinuteOf(e)

\* the dates _parse_date_from_string reads from a list of date texts
ParsedDates(texts) ==
    { parse_date_from_string(DateStringOf(texts[i])) : i \in DOMAIN texts }
    \ {NoDatetime}

\* _get_festival_start_date(films): the earliest of the dates parsed from
\* film.get('screenings', []) over all films
get_festival_start_date(fs) ==
    Earliest(UNION { ParsedDates(Get(fs[i], "screenings", <<>>)) : i \in DOMAIN fs })

\* _is_festival_date(date_str, films): the date lies in the range of the
\* dates of the films, read from their key 'date' (the keys 'datetime',
\* 'screening_date' and 'showtime_date' are read likewise; no dict here has them)
is_festival_date(date_text, fs) ==
    With(parse_date_from_string(DateStringOf(date_text)), LAMBDA parsed_date :
    With(UNION { ParsedDates(IF Truthy(Get(fs[i], "date", <<>>))
                             THEN <<Get(fs[i], "date", <<>>)>> ELSE <<>>) :
                 i \in DOMAIN fs }, LAMBDA dates :
        /\ Truthy(date_text)
        /\ parsed_date.known
        /\ dates # {}
        /\ Earliest(dates).day <= parsed_date.day
        /\ parsed_date.day <= Latest(dates).day))

\* a token of the director text that re.split(r'\s+(?:and|&)\s+|,\s*|/')
\* splits at: a comma or a slash, or a word "and" or "&" between two others
SplitsAt(director, i) ==
    \/ director[i] \in {",", "/"}
    \/ director[i] \in {"and", "&"} /\ 1 < i /\ i < Len(director)

\* _count_directors(director): the parts between the separators that hold a name
count_directors(director) ==
    IF ~Truthy(director) THEN 0
    ELSE Cardinality({ i \in DOMAIN director :
                         /\ ~SplitsAt(director, i)
                         /\ (i = 1 \/ SplitsAt(director, i - 1)) })

NoSkip == [skip |-> FALSE, reason |-> "", director_count |-> 0, raised |-> ""]

\* should_skip_imdb_lookup(film): the tuple (should_skip, reason), the count
\* the reason names, and the exception raised for a director that is None
\* under a title with a plus sign
should_skip_imdb_lookup(f) ==
    LET title == Get(f, "title", <<>>)
        director == Get(f, "director", <<>>)
    IN  IF Contains(title, <<"+">>) /\ IsNone(director)
        THEN [NoSkip EXCEPT !.raised = "TypeError"]
        ELSE IF Contains(title, <<"+">>) /\ Contains(director, <<"/">>)
        THEN [NoSkip EXCEPT !.skip = TRUE, !.reason = "dual film screening"]
        ELSE IF count_directors(director) >= 3
        THEN [NoSkip EXCEPT !.skip = TRUE, !.reason = "film with N directors",
                            !.director_count = count_directors(director)]
        ELSE NoSkip

\* what the pages of a title hold: company credits, release date, country
\* and runtime
TitleDetails(id) ==
    CASE id = <<"tt1">> ->
            [production_companies |-> NameList(1), distributors |-> <<>>,
             release_date |-> <<"December", "1", "2025">>,
             country |-> <<"USA">>, runtime |-> <<>>]
      [] id = <<"tt2">> ->
            [production_companies |-> NameList(3), distributors |-> NameList(1),
             release_date |-> <<"October", "10", "2025">>,
             country |-> <<"USA">>, runtime |-> <<"139", "minutes">>]
      [] OTHER ->
            [production_companies |-> <<>>, distributors |-> <<>>,
             release_date |-> NoneT, country |-> <<>>, runtime |-> <<>>]

\* the pages of a title fetched after the search: the company credits page
\* and the main page
DetailKinds == {"credits", "main"}

\* get_company_credits, get_theatrical_release_date and
\* get_country_and_runtime on the web as it is: a page that cannot be
\* fetched gives empty lists, None, and empty strings
FetchedDetails(imdb_id, web) ==
    With(TitleDetails(imdb_id), LAMBDA page :
         [production_companies |->
              IF web["credits"].ok THEN page.production_companies ELSE <<>>,
          distributors |-> IF web["credits"].ok THEN page.distributors ELSE <<>>,
          release_date |-> IF web["main"].ok THEN page.release_date ELSE NoneT,
          country |-> IF web["main"].ok THEN page.country ELSE <<>>,
          runtime |-> IF web["main"].ok THEN page.runtime ELSE <<>>])

\* the keys set for a film whose lookup is skipped
SkippedFilm(f) ==
    [f EXCEPT !.keys = @ \cup {"production_companies", "distributors", "imdb_id",
                               "theatrical_release_date", "likely_theatrical"},
              !.production_companies = <<>>, !.distributors = <<>>,
              !.imdb_id = NoneT, !.theatrical_release_date = NoneT,
              !.likely_theatrical = FALSE]

\* likely_theatrical of a film after the lookup
LikelyTheatrical(f, fs) ==
    \/ /\ Truthy(Get(f, "theatrical_release_date", NoneT))
       /\ ~is_festival_date(Get(f, "theatrical_release_date", NoneT), fs)
    \/ Len(Get(f, "production_companies", <<>>)) > 2
    \/ Len(Get(f, "distributors", <<>>)) >= 1

\* the film after a lookup that returned imdb_id
LookedUpFilm(f, imdb_id, festival_start_date, fs, web) ==
    With(FetchedDetails(imdb_id, web), LAMBDA page :
    With(IF Truthy(imdb_id)
         THEN [f EXCEPT
                 !.keys = @ \cup {"production_companies", "distributors", "imdb_id",
                                  "theatrical_release_date", "is_festival_debut"}
                            \cup { k \in {"country"} : ~Truthy(Get(f, "country", <<>>)) }
                            \cup { k \in {"runtime"} : ~Truthy(Get(f, "runtime", <<>>)) },
                 !.production_companies = page.production_companies,
                 !.distributors = page.distributors,
                 !.imdb_id = imdb_id,
                 !.theatrical_release_date = page.release_date,
                 !.is_festival_debut =
                     is_festival_debut(DateStringOf(page.release_date), festival_start_date),
                 !.country = IF Truthy(Get(f, "country", <<>>)) THEN @ ELSE page.country,
                 !.runtime = IF Truthy(Get(f, "runtime", <<>>)) THEN @ ELSE page.runtime]
         ELSE [f EXCEPT
                 !.keys = @ \cup {"production_companies", "distributors", "imdb_id",
                                  "theatrical_release_date"},
                 !.production_companies = <<>>, !.distributors = <<>>,
                 !.imdb_id = NoneT, !.theatrical_release_date = NoneT],
         LAMBDA g :
            [g EXCEPT !.keys = @ \cup {"likely_theatrical"},
                      !.likely_theatrical = LikelyTheatrical(g, fs)]))

\* the body of the loop of enrich_films for one film: the film, the queries
\* asked for it, the verdict of should_skip_imdb_lookup
ImdbOneFilm(f, festival_start_date, fs, web) ==
    With(should_skip_imdb_lookup(f), LAMBDA verdict :
    IF verdict.raised # "" THEN [film |-> f, queries |-> <<>>, verdict |-> verdict]
    ELSE IF verdict.skip
    THEN [film |-> SkippedFilm(f), queries |-> <<>>, verdict |-> verdict]
    ELSE With(search_imdb(f.title, <<"2025">>, Get(f, "director", <<>>), web), LAMBDA r :
         [film |-> LookedUpFilm(f, r.imdb_id, festival_start_date, fs, web),
          queries |-> r.queries, verdict |-> verdict]))

\* IMDbEnricher.enrich_films(films, limit): the list returned, the exception
\* raised if any, the festival start date used, and for each film the queries
\* asked and the skip verdict
IMDbEnricher_enrich_films(fs, limit, webs) ==
    With(Limited(fs, limit), LAMBDA cut :
    With(get_festival_start_date(cut), LAMBDA festival_start_date :
    With([i \in DOMAIN cut |-> ImdbOneFilm(cut[i], festival_start_date, cut, webs[i])],
         LAMBDA rs :
    With({ i \in DOMAIN cut : rs[i].verdict.raised # "" }, LAMBDA failed :
         [films |-> [i \in DOMAIN cut |->
                        IF \E j \in failed : j <= i THEN cut[i] ELSE rs[i].film],
          raised |-> IF failed = {} THEN "" ELSE "TypeError",
          festival_start_date |-> festival_start_date,
          queries |-> [i \in DOMAIN cut |->
                          IF \E j \in failed : j <= i THEN <<>> ELSE rs[i].queries],
          verdicts |-> [i \in DOMAIN cut |-> rs[i].verdict]]))))

--------------------------------------------------------------------------
(* IMDbEnricher.enrich_films applied to a batch *)

ThreeDirectors ==
    <<"Noah", "Baumbach", "and", "Greta", "Gerwig", "and", "Kenneth", "Lonergan">>

\* a film dict of the lineup extractor with one showtime on the given date
\* label, or none for NoElement
LineupFilm(title, director, date) ==
    ExtractedFilm(title, director, <<"drama">>, <<"2025">>, NoneT, NoneT,
                  IF date = NoElement THEN <<>>
                  ELSE <<Showtime(date, <<"6:00 PM">>, <<>>, TRUE, <<"6:00 PM">>)>>)

\* dicts as extract_film_data returns them
ExtractorFilms ==
    { LineupFilm(<<"Anora">>, <<"Jane", "Doe">>, <<"2025-09-27">>),
      LineupFilm(<<"Anora">>, ThreeDirectors, <<"2025-09-26">>),
      LineupFilm(<<"A", "+", "B">>, <<"Jane", "Doe", "/", "John", "Roe">>, NoElement),
      LineupFilm(<<"A", "+", "B">>, <<"Jane", "Doe", "and", "John", "Roe">>, NoElement),
      LineupFilm(<<"A", "+", "B">>, NoneT, NoElement) }

\* a dict that has the key 'screenings' as well, which no extractor dict has
FilmWithScreenings ==
    [LineupFilm(<<"Anora">>, <<"Jane", "Doe">>, <<"2025-09-27">>) EXCEPT
        !.keys = @ \cup {"screenings"},
        !.screenings = << <<"2025-09-27">>, <<"2025-09-26", "19:30">>, <<"TBA">> >>]

ImdbFilms == ExtractorFilms \cup {FilmWithScreenings}

\* every request fails
DeadWeb == [k \in QueryKinds \cup DetailKinds |-> NoPage]

\* the first query a search asks finds the title tt2; the one with the
\* director finds a title of another director first
LiveWeb ==
    [k \in QueryKinds \cup DetailKinds |->
        IF k = "title director year"
        THEN Page(<<Link("tt1", TRUE, TRUE, "ok", <<"John", "Roe">>),
                    Link("tt2", TRUE, TRUE, "ok", <<"Jane", "Doe">>)>>)
        ELSE IF k \in DetailKinds THEN Page(<<>>)
        ELSE Page(<<Link("tt2", TRUE, TRUE, "ok", <<"Jane", "Doe">>)>>)]

\* the searches are answered and find the title tt2, but no page of the
\* title can be fetched
FlakyWeb ==
    [k \in QueryKinds \cup DetailKinds |->
        IF k \in DetailKinds THEN NoPage
        ELSE Page(<<Link("tt2", TRUE, TRUE, "unreachable", <<"Jane", "Doe">>)>>)]

FilmWebs == {DeadWeb, LiveWeb, FlakyWeb}

InitImdb ==
    /\ film = BlankFilm /\ firstPass = BlankFilm /\ passes = 0 /\ raised = ""
    /\ lastScore = NoScore
    /\ films = <<>> /\ stages = <<>> /\ searched = {} /\ exported = <<>>
    /\ cache = EmptyCache /\ lastCall = NoCall /\ lineup = NoLineup
    /\ \E n \in 1..MaxBatch :
       \E fs \in [1..n -> ImdbFilms], webs \in [1..n -> FilmWebs], limit \in 0..MaxLimit :
          input = [op |-> "imdb_enrich_films", films |-> fs, limit |-> limit,
                   webs |-> webs]
    /\ output = NoOutput

\* imdb_enricher.enrich_films(films, limit=args.limit)
ImdbEnrichFilms ==
    /\ input.op = "imdb_enrich_films" /\ ~output.done
    /\ \E r \in {IMDbEnricher_enrich_films(input.films, input.limit, input.webs)} :
          output' = [done |-> TRUE, films |-> r.films, raised |-> r.raised,
                     festival_start_date |-> r.festival_start_date,
                     queries |-> r.queries, verdicts |-> r.verdicts]
    /\ UNCHANGED <<scoreVars, pipeVars, fetchVars, input>>

NextImdb == ImdbEnrichFilms

SpecImdb == InitImdb /\ [][NextImdb]_vars

--------------------------------------------------------------------------
(* The cache files of the lineup fetch and of the IMDb search fetches. A URL
   is a sequence of tokens, and the document a site serves for a URL names
   that URL. *)

DEFAULT_URL == <<"https://www.filmlinc.org/nyff/nyff63-lineup/">>

\* backup_urls[i - 1]
BackupUrl(i) ==
    CASE i = 1 -> <<"https://web.archive.org/web/https://www.filmlinc.org/nyff/nyff63-lineup/">>
      [] i = 2 -> <<"https://web.archive.org/web/2/https://www.filmlinc.org/nyff/nyff63-lineup/">>
      [] i = 3 -> <<"https://web.archive.org/web/20250831221540/https://www.filmlinc.org/nyff/nyff63-lineup/">>

\* the URLs a run may be pointed at (the positional argument url of the cli)
LineupUrls == {DEFAULT_URL, <<"https://example.com/films">>}

\* the document the site at url serves
DocAt(url) == <<"<html>">> \o url \o <<"</html>">>

\* the URL of source i of a scrape of url
SourceUrl(url, i) == IF i = 0 THEN url ELSE BackupUrl(i)

\* what the GET requests for the sources get: the sources in up answer
ScriptsFor(url, up) ==
    [j \in 1..(NumBackups + 1) |->
        IF (j - 1) \in up THEN Serve(DocAt(SourceUrl(url, j - 1))) ELSE AllFail]

\* normalize_title(title): characters other than word characters, white
\* space and ' - . : ! ? become a space, runs of spaces collapse
NormalizeTitle(title) ==
    With([i \in DOMAIN title |-> IF title[i] \in {"+", "/", "&"} THEN " " ELSE title[i]],
         LAMBDA spaced :
         Strip(SelectSeq([i \in DOMAIN spaced |->
                              IF spaced[i] = " " /\ i > 1 /\ spaced[i - 1] = " "
                              THEN "" ELSE spaced[i]],
                         LAMBDA t : t # "")))

\* re.sub(r'[^\w]', '_', film_title)
Underscored(title) ==
    [i \in DOMAIN title |-> IF title[i] \in {"+", "/", "&", "-", " ", ":"} THEN "_"
                            ELSE title[i]]

\* the text of the f-string f"imdb_search_{underscored_film_title}_attempt_{attempt_num}.html"
SearchFile(underscored, attempt_num) ==
    CASE underscored = <<"Anora">> /\ attempt_num = 1 -> "imdb_search_Anora_attempt_1.html"
      [] underscored = <<"Anora">> /\ attempt_num = 2 -> "imdb_search_Anora_attempt_2.html"
      [] underscored = <<"Anora">> /\ attempt_num = 3 -> "imdb_search_Anora_attempt_3.html"
      [] underscored = <<"A", "_", "B">> /\ attempt_num = 1 -> "imdb_search_A_B_attempt_1.html"
      [] underscored = <<"A", "_", "B">> /\ attempt_num = 2 -> "imdb_search_A_B_attempt_2.html"
      [] underscored = <<"A", "_", "B">> /\ attempt_num = 3 -> "imdb_search_A_B_attempt_3.html"

\* the text of the f-string f"imdb_advanced_search_{underscored_film_title}.html"
AdvancedSearchFile(underscored) ==
    CASE underscored = <<"Anora">> -> "imdb_advanced_search_Anora.html"
      [] underscored = <<"A", "_", "B">> -> "imdb_advanced_search_A_B.html"

\* the search query of a query variant
SearchQuery(kind, film_title, year, director) ==
    CASE kind = "title director year" ->
            NormalizeTitle(film_title) \o <<" ">> \o NormalizeTitle(director)
            \o <<" ">> \o year
      [] kind = "title year" -> NormalizeTitle(film_title) \o <<" ">> \o year
      [] OTHER -> NormalizeTitle(film_title)

\* the position of a query variant in search_attempts, 0 if it is not there
AttemptNum(kind, director) ==
    With(SearchAttempts(director), LAMBDA attempts :
         IF \E n \in DOMAIN attempts : attempts[n] = kind
         THEN CHOOSE n \in DOMAIN attempts : attempts[n] = kind
         ELSE 0)

\* the URL and the cache file name of the fetch of a query variant
SearchRequest(kind, film_title, year, director) ==
    IF kind = "advanced"
    THEN [url |-> <<"https://www.imdb.com/search/title/?title=">>
                  \o NormalizeTitle(film_title)
                  \o <<"&release_date=">> \o year \o <<"-01-01,">> \o year \o <<"-12-31">>,
          filename |-> AdvancedSearchFile(Underscored(film_title))]
    ELSE [url |-> <<"https://www.imdb.com/find/?q=">>
                  \o SearchQuery(kind, film_title, year, director)
                  \o <<"&s=tt&ttype=ft">>,
          filename |-> IF AttemptNum(kind, director) = 0 THEN ""
                       ELSE SearchFile(Underscored(film_title),
                                       AttemptNum(kind, director))]

\* the result links IMDb lists for a search URL
LinksAt(url) ==
    IF Contains(url, <<"Jane", "Doe">>) THEN <<"tt2">>
    ELSE IF Contains(url, <<"&release_date=">>) THEN <<"tt1">>
    ELSE IF Contains(url, <<"2025", "&s=tt&ttype=ft">>) THEN <<"tt4">>
    ELSE <<>>

\* the document IMDb serves for a search URL
ImdbDocAt(url) == <<"<html>">> \o url \o LinksAt(url) \o <<"</html>">>

\* the result links of an id
LinkOf(id) == CHOOSE l \in ResultLinks : l.id = id

\* BeautifulSoup(content).select(selector): the result links of a document
ParsePage(content) ==
    IF content = <<>> THEN NoPage
    ELSE With(SelectSeq(content, LAMBDA t : t \in { l.id : l \in ResultLinks }),
              LAMBDA ids : Page([i \in DOMAIN ids |-> LinkOf(ids[i])]))

\* IMDbEnricher.get_cached_or_fetch(url, filename); up: the GET request is
\* answered
imdb_get_cached_or_fetch(store, url, filename, up) ==
    IF store[filename].exists
    THEN [content |-> ReadText(store[filename].content), hit |-> TRUE, store |-> store]
    ELSE IF up
    THEN [content |-> ImdbDocAt(url), hit |-> FALSE,
          store |-> [store EXCEPT ![filename] =
                        [exists |-> TRUE, content |-> WriteText(ImdbDocAt(url)),
                         age |-> 0, returned |-> ImdbDocAt(url)]]]
    ELSE [content |-> <<>>, hit |-> FALSE, store |-> store]

\* the fetch of one query variant of a search
SearchFetch(store, kind, film_title, year, director, up) ==
    With(SearchRequest(kind, film_title, year, director), LAMBDA rq :
         IF rq.filename = ""
         THEN [kind |-> kind, url |-> rq.url, filename |-> rq.filename,
               content |-> <<>>, hit |-> FALSE, store |-> store]
         ELSE With(imdb_get_cached_or_fetch(store, rq.url, rq.filename, up), LAMBDA r :
              [kind |-> kind, url |-> rq.url, filename |-> rq.filename,
               content |-> r.content, hit |-> r.hit, store |-> r.store]))

RECURSIVE StoreAfter(_, _, _)
\* the cache directory after the fetches of the queries asked
StoreAfter(store, fetches, queries) ==
    IF queries = <<>> THEN store
    ELSE StoreAfter([store EXCEPT ![fetches[queries[1]].filename] =
                        fetches[queries[1]].store[fetches[queries[1]].filename]],
                    fetches, Tail(queries))

\* search_imdb(film_title, year, director) on the cache directory: the files
\* of the query variants of one search are distinct, so what each fetch sees
\* is decided by the directory the search starts with
search_imdb_cached(store, film_title, year, director, up) ==
    With([k \in QueryKinds |-> SearchFetch(store, k, film_title, year, director, up)],
         LAMBDA fetches :
    With(search_imdb(film_title, year, director,
                     [k \in QueryKinds |-> ParsePage(fetches[k].content)]),
         LAMBDA r :
         [imdb_id |-> r.imdb_id,
          fetches |-> [i \in DOMAIN r.queries |->
                          [url |-> fetches[r.queries[i]].url,
                           filename |-> fetches[r.queries[i]].filename,
                           content |-> fetches[r.queries[i]].content,
                           hit |-> fetches[r.queries[i]].hit]],
          store |-> StoreAfter(store, fetches, r.queries)]))

SearchTitles == {<<"Anora">>, <<"A", "+", "B">>, <<"A", "-", "B">>}

CacheDirDirectors == {NoneT, <<"Jane", "Doe">>}

ImdbFiles ==
    { SearchFile(u, n) : u \in {<<"Anora">>, <<"A", "_", "B">>}, n \in 1..3 }
    \cup { AdvancedSearchFile(u) : u \in {<<"Anora">>, <<"A", "_", "B">>} }

\* no fetch has been made
NoFetches == [calls |-> 0, fetches |-> <<>>]

InitCacheDir ==
    /\ film = BlankFilm /\ firstPass = BlankFilm /\ passes = 0 /\ raised = ""
    /\ lastScore = NoScore
    /\ films = <<>> /\ stages = <<>> /\ searched = {} /\ exported = <<>>
    /\ cache = [k \in CacheKeys \cup ImdbFiles |-> NoEntry]
    /\ lastCall = NoFetches /\ lineup = NoLineup
    /\ input = NoInput /\ output = NoOutput

\* scraper.scrape_nyff_lineup(args.url)
ScrapeUrl ==
    /\ lastCall.calls < MaxFetches
    /\ \E url \in LineupUrls, up \in SUBSET {0, 1} :
       \E r \in {scrape_nyff_lineup(cache, FALSE, ScriptsFor(url, up))} :
        /\ cache' = r.store
        /\ lastCall' =
              [calls |-> lastCall.calls + 1,
               fetches |-> [i \in DOMAIN r.consulted |->
                               [url |-> SourceUrl(url, r.consulted[i]),
                                filename |-> SourceKey(r.consulted[i]),
                                content |-> IF IsNone(r.results[i]) THEN <<>>
                                            ELSE r.results[i],
                                hit |-> r.attempts[i] = 0]]]
        /\ UNCHANGED <<scoreVars, pipeVars, lineup, applyVars>>

\* self.search_imdb(film['title'], screening_year, director)
SearchTitle ==
    /\ lastCall.calls < MaxFetches
    /\ \E t \in SearchTitles, dir \in CacheDirDirectors, up \in BOOLEAN :
       \E r \in {search_imdb_cached(cache, t, <<"2025">>, dir, up)} :
        /\ cache' = r.store
        /\ lastCall' = [calls |-> lastCall.calls + 1, fetches |-> r.fetches]
        /\ UNCHANGED <<scoreVars, pipeVars, lineup, applyVars>>

NextCacheDir == ScrapeUrl \/ SearchTitle

SpecCacheDir == InitCacheDir /\ [][NextCacheDir]_vars

--------------------------------------------------------------------------
(* The enricher stages applied to a batch *)

PipelineFilms ==
    { ExtractedFilm(t, <<"Jane", "Doe">>, <<"drama">>, y, NoneT, <<"90", "minutes">>, <<>>) :
        t \in {<<"Anora">>, <<"Shorts", "Program">>}, y \in {<<"2025">>, NoneT} }

Candidates ==
    {[vid |-> "v1", page |-> "error", title |-> <<>>],
     [vid |-> "v2", page |-> "ok", title |-> <<"Anora", "-", "Official", "Trailer">>],
     [vid |-> "v3", page |-> "ok", title |-> <<"Shorts", "Program", "Trailer">>]}

\* what the search request can come back with
SearchResponses ==
    {[status |-> "error", video_ids |-> <<>>]}
    \cup { [status |-> "ok", video_ids |-> ids] :
             ids \in UNION { [1..n -> Candidates] : n \in 0..MaxCandidates } }

Ran(stage) == \E i \in DOMAIN stages : stages[i] = stage

InitPipeline ==
    /\ films \in UNION { [1..n -> PipelineFilms] : n \in 1..MaxBatch }
    /\ stages = <<>> /\ searched = {} /\ exported = <<>>
    /\ film = BlankFilm /\ firstPass = BlankFilm /\ passes = 0 /\ raised = ""
    /\ lastScore = NoScore
    /\ cache = EmptyCache /\ lastCall = NoCall /\ lineup = NoLineup
    /\ input = [op |-> "pipeline", extracted |-> films] /\ output = NoOutput

\* films = imdb_enricher.enrich_films(films, limit=args.limit), the first
\* enricher run_scraper_pipeline calls
ImdbStage ==
    /\ raised = "" /\ ~Ran("export") /\ ~Ran("imdb") /\ ~Ran("trailer")
    /\ \E limit \in 0..MaxLimit, webs \in [1..Len(films) -> FilmWebs] :
       \E r \in {IMDbEnricher_enrich_films(films, limit, webs)} :
           /\ films' = r.films
           /\ raised' = r.raised
    /\ stages' = Append(stages, "imdb")
    /\ UNCHANGED <<searched, exported, film, firstPass, passes, lastScore, fetchVars, applyVars>>

\* films = MetadataEnricher().enrich_films(films): the classification, which
\* the package exports and run_scraper_pipeline itself does not call
ClassifyStage ==
    /\ raised = "" /\ ~Ran("export") /\ ~Ran("metadata")
    /\ \E r \in {MetadataEnricher_enrich_films(films)} :
           /\ films' = r.films
           /\ raised' = r.raised
    /\ stages' = Append(stages, "metadata")
    /\ UNCHANGED <<searched, exported, film, firstPass, passes, lastScore, fetchVars, applyVars>>

\* films = trailer_enricher.enrich_films(films, search_trailers=True, limit=args.limit)
TrailerStage ==
    /\ raised = "" /\ ~Ran("export") /\ ~Ran("trailer")
    /\ \E limit \in 0..MaxLimit, responses \in [1..Len(films) -> SearchResponses] :
       \E r \in {TrailerEnricher_enrich_films(films, TRUE, limit, responses)} :
           /\ films' = r.films
           /\ searched' = r.searched
    /\ stages' = Append(stages, "trailer")
    /\ UNCHANGED <<exported, scoreVars, fetchVars, applyVars>>

\* the batch is handed to the exporters
ExportStage ==
    /\ raised = "" /\ ~Ran("export")
    /\ exported' = films
    /\ stages' = Append(stages, "export")
    /\ UNCHANGED <<films, searched, scoreVars, fetchVars, applyVars>>

NextPipeline == ImdbStage \/ ClassifyStage \/ TrailerStage \/ ExportStage

SpecPipeline == InitPipeline /\ [][NextPipeline]_vars

--------------------------------------------------------------------------
(* Properties of the scoring and classification engine *)

Returned == passes > 0 /\ raised = ""

NumDistributors == Len(Get(film, "distributors", <<>>))
NumCompanies == Len(Get(film, "production_companies", <<>>))
HasReleaseDate == Truthy(Get(film, "theatrical_release_date", NoneT))

\* C1: every score the scorer returns lies in 0..100, and the flag returned
\* with it (and stored in the dict) equals score >= 50.
C1_ScoreBounded ==
    Returned =>
        /\ 0 <= lastScore.score /\ lastScore.score <= 100
        /\ lastScore.is_likely = (lastScore.score >= 50)
        /\ film.distribution_likelihood_score = lastScore.score
        /\ film.is_likely_to_be_distributed = (film.distribution_likelihood_score >= 50)

\* a score whose raw sum exceeded 100 was returned
C1_Witness == Returned /\ lastScore.total > 100 /\ lastScore.score = 100

\* the section weights, the IMDb signal and the legacy heuristic as the
\* specification states them
SpecSectionWeight(section) ==
    CASE section = "main slate" -> 50
      [] section = "spotlight" -> 45
      [] section = "currents" -> 0 - 40
      [] section \in {"restoration", "revivals"} -> 0 - 70
      [] section = "shorts" -> 0 - 80
      [] section = "unknown" -> 0

SpecSignal ==
      (IF NumDistributors >= 1 THEN 40 ELSE 0)
    + (IF NumCompanies > 3 THEN 20 ELSE 0)
    + (IF HasReleaseDate THEN 10 ELSE 0)

SpecLegacy ==
      (IF NumCompanies > 2 THEN 20 ELSE 0)
    + (IF NumDistributors >= 1 THEN 30 ELSE 0)

SpecClamp(x) == IF x < 0 THEN 0 ELSE IF x > 100 THEN 100 ELSE x

ClassificationKeys ==
    {"is_short_program", "is_restoration", "has_intro_or_qna", "category",
     "distribution_likelihood_score", "is_likely_to_be_distributed"}

\* C3: a second application of MetadataEnricher.enrich_films to the record the
\* first one produced leaves the three flags, the category, the score and the
\* likely flag as the first application set them.
C3_Idempotent ==
    (passes >= 2 /\ raised = "") =>
        /\ ClassificationKeys \subseteq film.keys
        /\ \A k \in ClassificationKeys : film[k] = firstPass[k]

\* the engine ran twice on a spotlight record with a Q&A and a positive score
C3_Witness ==
    /\ passes >= 2 /\ raised = "" /\ firstPass.distribution_likelihood_score > 0
    /\ firstPass.has_intro_or_qna /\ firstPass.category = <<"spotlight">>

\* the section by the precedence of the specification: the category field,
\* the flags, then the indicator lists in their order
SectionByPrecedence(f, named) ==
    LET category == LowerText(Get(f, "category", <<>>))
        text_content == LowerText(Get(f, "title", <<>>))
                            \o LowerText(Get(f, "description", <<>>))
    IN  IF category \in named THEN category
        ELSE IF Get(f, "is_short_program", FALSE) THEN <<"shorts">>
        ELSE IF Get(f, "is_restoration", FALSE) THEN <<"restoration">>
        ELSE IF ContainsAny(text_content, main_slate_indicators) THEN <<"main", "slate">>
        ELSE IF ContainsAny(text_content, spotlight_indicators) THEN <<"spotlight">>
        ELSE IF ContainsAny(text_content, currents_indicators) THEN <<"currents">>
        ELSE IF ContainsAny(text_content, section_restoration_indicators)
             THEN <<"restoration">>
        ELSE <<"unknown">>

\* the name of a section as a text
SectionText(section) ==
    IF section = "main slate" THEN <<"main", "slate">> ELSE <<section>>

\* C22: the section is resolved by strict precedence: a category field that
\* names shorts, restoration or spotlight gives that section; otherwise shorts
\* if is_short_program, otherwise restoration if is_restoration; otherwise the
\* first of main slate, spotlight, currents, restoration with an indicator in
\* title and description; otherwise unknown.
C22_SectionByPrecedence ==
    Returned =>
        SectionText(lastScore.section)
            = SectionByPrecedence(film, {<<"shorts">>, <<"restoration">>, <<"spotlight">>})

\* what does hold: the same precedence with a category field that counts only
\* when it names shorts or restoration
C22_CategoryShortsOrRestoration ==
    Returned =>
        SectionText(lastScore.section)
            = SectionByPrecedence(film, {<<"shorts">>, <<"restoration">>})

\* the director text matches the multi-director pattern: two or more names
\* joined by and, &, + or a comma
NamesJoined(director) ==
    /\ ~IsNone(director)
    /\ \E i \in 2..(Len(director) - 1) :
          /\ director[i] \in {"and", "&", "+", ","}
          /\ StartsUpper(director[i - 1]) /\ StartsUpper(director[i + 1])

\* C25: is_short_program is true for every record whose director field
\* matches the multi-director pattern, whatever the title, the description
\* and the runtime are.
C25_MultiDirectorIsShortProgram ==
    (Returned /\ NamesJoined(Get(film, "director", <<>>)))
        => Get(film, "is_short_program", FALSE)

\* what does hold: the flag is decided by the title, the description and the
\* runtime alone
C25_ShortProgramByText ==
    Returned =>
        (Get(film, "is_short_program", FALSE)
            <=> \/ ContainsAny(LowerText(Get(film, "title", <<>>)), shorts_title_indicators)
                \/ ContainsAny(LowerText(Get(film, "description", <<>>)), desc_indicators)
                \/ ContainsAny(LowerText(Get(film, "runtime", <<>>)),
                               {<<"shorts">>, <<"films">>, <<"segments">>}))

\* C29: after MetadataEnricher.enrich_films every record with
\* is_short_program true has category shorts, a score of at most 40 and
\* is_likely_to_be_distributed false, for every number of production
\* companies and distributors and with or without a release date.
C29_ShortProgramScoresLow ==
    (Returned /\ Get(film, "is_short_program", FALSE)) =>
        /\ Get(film, "category", <<>>) = <<"shorts">>
        /\ Get(film, "distribution_likelihood_score", 0 - 1) \in 0..40
        /\ Get(film, "is_likely_to_be_distributed", TRUE) = FALSE

\* a shorts program with a distributor, four production companies and a
\* release date reaches the score 40
C29_Witness ==
    /\ Returned /\ Get(film, "is_short_program", FALSE)
    /\ NumDistributors = 1 /\ NumCompanies = 4 /\ HasReleaseDate
    /\ Get(film, "distribution_likelihood_score", 0 - 1) = 40
    /\ ~Get(film, "is_likely_to_be_distributed", TRUE)

\* the keys MetadataEnricher.enrich_films assigns to a record
Assigned(f) ==
    {"is_short_program", "is_restoration", "has_intro_or_qna", "category",
     "distribution_likelihood_score"} \subseteq f.keys

\* the fields of a lineup record the classification reads with .lower() or
\* .isdigit()
AbsentFields(f) ==
    { k \in {"director", "description", "year", "runtime"} : IsNone(Get(f, k, <<>>)) }

\* C30: MetadataEnricher.enrich_films completes without error on every
\* record extract_film_data can return, also when director, description,
\* year, country or runtime is None, and assigns the three flags, a
\* category and a score.
C30_TotalOnExtractorOutput ==
    passes > 0 => (raised = "" /\ Assigned(film))

\* what holds instead: on a record with none of these fields absent the pass
\* completes and assigns all five keys, and a pass that raised met an
\* absent field
C30_TotalOnCompleteRecords ==
    passes > 0 =>
        /\ (AbsentFields(film) = {} => (raised = "" /\ Assigned(film)))
        /\ (raised # "" => (raised = "AttributeError" /\ AbsentFields(film) # {}
                                /\ ~Assigned(film)))

--------------------------------------------------------------------------
(* Properties of the pipeline *)

\* C4: once trailer enrichment has run, a record whose is_short_program flag
\* is true has an empty trailer_url and no trailer search was issued for it,
\* in whatever order the classification and the trailer stage ran.
C4_ShortProgramHasNoTrailer ==
    Ran("trailer") =>
        \A i \in DOMAIN films :
            Get(films[i], "is_short_program", FALSE) =>
                (films[i].trailer_url = <<>> /\ i \notin searched)

--------------------------------------------------------------------------
(* Properties of the fetch cache *)

\* the last call found an entry it may use: the entry exists, no refresh is
\* forced, and no maximum age is given or the entry is no older than it
EntryUsable ==
    /\ lastCall.before.exists
    /\ ~lastCall.force_refresh
    /\ \/ lastCall.max_age_minutes = NoMaxAge
       \/ lastCall.before.age <= lastCall.max_age_minutes

FailedAttempt(response) == response.kind \in {"ConnectionError", "Timeout", "HTTPError"}

\* a GET attempt that yielded a document passing the markup check
ValidAttempt(response) ==
    response.kind = "ok" /\ ~response.decode_raises /\ LooksLikeHtml(response.body)

C7_OnlyMarkupIsCached ==
    /\ \A k \in CacheKeys : cache[k].exists => LooksLikeHtml(cache[k].content)
    /\ (lastCall.called /\ ~lastCall.hit /\ ~IsNone(lastCall.result))
          => LooksLikeHtml(lastCall.result)

\* C8: content returned from the network is the content of the cache entry at
\* return, and a call served from that entry returns the identical content.
C8_CacheServesWhatWasFetched ==
    /\ (lastCall.called /\ ~lastCall.hit /\ ~IsNone(lastCall.result))
          => /\ cache[lastCall.key].exists
             /\ cache[lastCall.key].content = lastCall.result
    /\ (lastCall.called /\ lastCall.hit)
          => lastCall.result = lastCall.before.returned

\* C28: a call of get_cached_or_fetch that returns None leaves the cache
\* unchanged: when the entry is stale or force_refresh is set and every
\* attempt fails or returns invalid content, the entry cached for the key
\* keeps its content (it is neither deleted nor overwritten) and is not
\* served by that call.
C28_FailedFetchKeepsEntry ==
    (lastCall.called /\ IsNone(lastCall.result)) =>
        /\ ~lastCall.hit /\ lastCall.raised = ""
        /\ lastCall.attempts = max_retries
        /\ \A i \in DOMAIN lastCall.responses : ~ValidAttempt(lastCall.responses[i])
        /\ cache[lastCall.key].exists = lastCall.before.exists
        /\ cache[lastCall.key].content = lastCall.before.content
        /\ cache[lastCall.key].returned = lastCall.before.returned
        /\ cache[lastCall.key].age >= lastCall.before.age

\* a stale entry with content was not refreshed: three attempts failed, the
\* call returned None and the entry still holds its content
C28_Witness ==
    /\ lastCall.called /\ IsNone(lastCall.result)
    /\ lastCall.before.exists /\ lastCall.before.content # <<>>
    /\ lastCall.max_age_minutes = DEFAULT_CACHE_MAX_AGE_MINUTES
    /\ lastCall.before.age > DEFAULT_CACHE_MAX_AGE_MINUTES
    /\ ~lastCall.force_refresh
    /\ cache[lastCall.key].exists
    /\ cache[lastCall.key].content = lastCall.before.content

--------------------------------------------------------------------------
(* Properties of the lineup scrape *)

\* a source yielded no content: None or the empty text
NoContent(result) == result \in {NoneT, <<>>}

\* C9: scrape_nyff_lineup consults the primary URL first and then backup 1, 2,
\* 3 in that order; every source consulted before the last one yielded no
\* content, so a backup is consulted only after all earlier sources yielded
\* none and nothing is consulted after the first source that yields content.
C9_SourcesInFixedOrder ==
    lineup.called =>
        /\ Len(lineup.consulted) \in 1..4
        /\ Len(lineup.results) = Len(lineup.consulted)
        /\ \A j \in DOMAIN lineup.consulted : lineup.consulted[j] = j - 1
        /\ \A j \in DOMAIN lineup.results :
              j < Len(lineup.results) => NoContent(lineup.results[j])

\* the primary failed, backup 1 yielded the empty text, backup 2 yielded a
\* document and backup 3 was not consulted
C9_Witness ==
    /\ lineup.called /\ lineup.consulted = <<0, 1, 2>>
    /\ IsNone(lineup.results[1]) /\ lineup.results[2] = <<>>
    /\ ~NoContent(lineup.results[3])
    /\ lineup.films # <<>>

\* C10: scrape_nyff_lineup returns the empty list for lack of content only
\* when the primary and all three backups were consulted and none yielded
\* content; when the primary yields no usable document (None or empty) the
\* backups are tried.
C10_EmptyOnlyAfterEverySource ==
    lineup.called =>
        /\ lineup.outcome = "no content" =>
              /\ lineup.consulted = <<0, 1, 2, 3>>
              /\ \A j \in DOMAIN lineup.results : NoContent(lineup.results[j])
        /\ NoContent(lineup.results[1]) => Len(lineup.consulted) >= 2

\* the containers of the page the last scrape parsed, in page order
PageContainers == film_containers(lineup.results[Len(lineup.results)])

\* a container with the title link, the div in it and a non-empty title,
\* whose extraction raises nothing
HasRequiredParts(tok) ==
    /\ Container(tok).title_link /\ Container(tok).title_div
    /\ Container(tok).title # <<>> /\ ~Container(tok).raises

\* C11: the films scrape_nyff_lineup returns for a parsed page are the
\* records of the containers that have the title link, the nested title node
\* and a non-empty title and raise nothing, one per such container, in page
\* order, each with a non-empty title.
C11_FailingContainersAreSkipped ==
    (lineup.called /\ lineup.outcome = "parsed") =>
        LET kept == SelectSeq(PageContainers, HasRequiredParts)
        IN  /\ Len(lineup.films) = Len(kept)
            /\ \A i \in DOMAIN kept :
                  /\ lineup.films[i].title = Container(kept[i]).title
                  /\ lineup.films[i].title # <<>>
                  /\ lineup.films[i] = extract_film_data(Container(kept[i]))

\* a page of four containers was parsed, the second lacking the title link
\* and the third raising, and the first and the fourth were returned
C11_Witness ==
    /\ lineup.called /\ lineup.outcome = "parsed"
    /\ Len(PageContainers) = 4
    /\ ~HasRequiredParts(PageContainers[2]) /\ ~HasRequiredParts(PageContainers[3])
    /\ Len(lineup.films) = 2
    /\ lineup.films[2].title = <<"Shorts", "Program">>

\* the number of digits of a numeral
NumDigits(t) ==
    CASE t = "0" -> 1
      [] t \in {"90", "12"} -> 2
      [] t \in {"1975", "2019", "2020", "2025"} -> 4
      [] OTHER -> 0

\* C24: for every record the lineup extractor returns, through the
\* structured-row strategy or the legacy pipe-delimited strategy of
\* extract_metadata, the year is absent or a string of exactly 4 digits.
C24_YearHasFourDigits ==
    \A i \in DOMAIN lineup.films :
        \/ IsNone(lineup.films[i].year)
        \/ (Len(lineup.films[i].year) = 1 /\ NumDigits(lineup.films[i].year[1]) = 4)

\* what does hold: the year is absent or a string of digits
C24_YearIsNumeral ==
    \A i \in DOMAIN lineup.films :
        \/ IsNone(lineup.films[i].year)
        \/ (Len(lineup.films[i].year) = 1 /\ NumDigits(lineup.films[i].year[1]) > 0)

--------------------------------------------------------------------------
(* Properties of the showtime extraction *)

\* the time entries of the section extract_showtimes was applied to
SourceButtons ==
    IF ~input.element.showtime_section.present THEN <<>>
    ELSE input.element.showtime_section.dates[1].buttons

\* the entry holds a time like 6:00 PM
HasTime(button) ==
    \E i \in DOMAIN button.text : button.text[i] \in {"6:00 PM", "9:15 AM", "12:30 PM"}

\* the entry has a disabled attribute, a class naming not-allowed or
\* disabled, or a struck-through child
MarkedSoldOut(button) ==
    \/ button.disabled
    \/ \E c \in button.classes :
          c \in {"cursor-not-allowed", "disabled", "disabled:opacity-50",
                 "disabled:cursor-not-allowed"}
    \/ button.linethrough

\* C12: the extracted showtimes are those of the entries with a time, in
\* order, and for each of them available is false exactly when its entry has
\* a disabled attribute, a not-allowed or disabled class, or a struck-through
\* child.
C12_AvailableIffUnmarked ==
    (input.op = "extract_showtimes" /\ output.done) =>
        LET timed == SelectSeq(SourceButtons, HasTime)
        IN  /\ Len(output.showtimes) = Len(timed)
            /\ \A i \in DOMAIN timed :
                  /\ output.showtimes[i].raw_text = timed[i].text
                  /\ (output.showtimes[i].available = FALSE) <=> MarkedSoldOut(timed[i])

\* two entries with a time were extracted: the first has a struck-through
\* child only and is not available, the second has no marker and is available
C12_Witness ==
    /\ input.op = "extract_showtimes" /\ output.done
    /\ Len(output.showtimes) = 2 /\ Len(SourceButtons) = 2
    /\ SourceButtons[1].linethrough /\ ~SourceButtons[1].disabled
    /\ SourceButtons[1].classes = {}
    /\ ~output.showtimes[1].available
    /\ ~MarkedSoldOut(SourceButtons[2]) /\ output.showtimes[2].available

--------------------------------------------------------------------------
(* Properties of the title matching *)

\* the normalized form of one title contains that of the other
OneContainsTheOther(a, b) ==
    \/ Contains(CleanTitle(a), CleanTitle(b))
    \/ Contains(CleanTitle(b), CleanTitle(a))

\* C13: whenever the normalized form of one of the two titles contains the
\* normalized form of the other, the call returned true, and so does the call
\* with the two titles exchanged.
C13_ContainmentMatchesBothWays ==
    (input.op = "_is_title_match" /\ output.done
       /\ OneContainsTheOther(input.found_title, input.expected_title)) =>
        /\ output.result
        /\ is_title_match(input.expected_title, input.found_title)

\* "Anora" was matched against the expected "Anora: Director's Cut", which
\* contains it and is too long to be similar, and the call returned true
C13_Witness ==
    /\ input.op = "_is_title_match" /\ output.done
    /\ input.found_title = Anora /\ input.expected_title = AnoraDirectorsCut
    /\ ~SimilarEnough(CleanTitle(Anora), CleanTitle(AnoraDirectorsCut))
    /\ output.result

--------------------------------------------------------------------------
(* Properties of the festival debut flag *)

\* the release date string names a calendar date
Parseable(date_str) == date_str.kind \in {"date", "datetime"}

\* C14: with a known festival start date and a parseable release date the
\* flag is true exactly when the two calendar dates are at most 21 days
\* apart; with a missing or unparseable date it is false.
C14_DebutIffWithin21Days ==
    (input.op = "_is_festival_debut" /\ output.done) =>
        IF input.festival_start_date.known /\ Parseable(input.imdb_theatrical_date)
        THEN output.result <=>
               Abs(input.imdb_theatrical_date.day - input.festival_start_date.day) <= 21
        ELSE ~output.result

\* the same for dates without a time of day, where it holds
C14_DateOnly ==
    (input.op = "_is_festival_debut" /\ output.done
       /\ input.festival_start_date.minute = 0
       /\ input.imdb_theatrical_date.minute = 0) =>
        IF input.festival_start_date.known /\ Parseable(input.imdb_theatrical_date)
        THEN output.result <=>
               Abs(input.imdb_theatrical_date.day - input.festival_start_date.day) <= 21
        ELSE ~output.result

--------------------------------------------------------------------------
(* Properties of the trailer stage *)

\* C19: after the trailer stage every record that is not a short program has
\* a manual search URL that is not empty, whichever of year and director it
\* lacks.
C19_ManualSearchUrlAlways ==
    Ran("trailer") =>
        \A i \in DOMAIN films :
            ~Get(films[i], "is_short_program", FALSE) =>
                Get(films[i], "youtube_search_url", <<>>) # <<>>

\* the same for the records that have a title and a year, where it holds
C19_ManualSearchUrlWithYear ==
    Ran("trailer") =>
        \A i \in DOMAIN films :
            (/\ ~Get(films[i], "is_short_program", FALSE)
             /\ Truthy(Get(films[i], "title", <<>>))
             /\ Truthy(Get(films[i], "year", <<>>))) =>
                Get(films[i], "youtube_search_url", <<>>) # <<>>

--------------------------------------------------------------------------
(* Properties of search_imdb *)

\* the queries in their fixed order, the first left out without a director
QueryOrder(director) ==
    IF Truthy(director)
    THEN <<"title director year", "title year", "title", "advanced">>
    ELSE <<"title year", "title", "advanced">>

\* the validator of the endpoint a query goes to
ValidatorOf(query) == IF query = "advanced" THEN "advanced_valid" ELSE "valid"

\* the link passed title and year validation and its detail page does not
\* list directors who all differ from the expected one
Acceptable(link, query, director) ==
    /\ link[ValidatorOf(query)]
    /\ Truthy(director) =>
          \/ get_director_from_imdb_page(link) = NoneT
          \/ validate_director_match(get_director_from_imdb_page(link), director)

\* the query came back with a page holding an acceptable link
Yields(query) ==
    /\ input.web[query].ok
    /\ \E i \in DOMAIN input.web[query].links :
          Acceptable(input.web[query].links[i], query, input.director)

\* C17: the queries asked are the first ones of the fixed order (title
\* director year, title year, title, then the advanced search; the first
\* left out without a director); every query before the last one asked
\* yielded no accepted candidate, and the search stopped early exactly when
\* the last query asked yielded one.
C17_QueriesInOrderUntilAccepted ==
    (input.op = "search_imdb" /\ output.done) =>
        LET order == QueryOrder(input.director)
            n == Len(output.queries)
        IN  /\ n >= 1 /\ n <= Len(order)
            /\ output.queries = SubSeq(order, 1, n)
            /\ \A k \in 1..(n - 1) : ~Yields(order[k])
            /\ n < Len(order) => Yields(order[n])
            /\ Yields(order[n]) <=> output.imdb_id # NoneT

\* without a director the first query yielded nothing, the second one did,
\* and the search stopped there with an id
C17_Witness ==
    /\ input.op = "search_imdb" /\ output.done
    /\ input.director = <<>>
    /\ output.queries = <<"title year", "title">>
    /\ ~Yields("title year") /\ input.web["title year"].ok
    /\ output.imdb_id = <<"tt1">>

\* the validated links in the order search_imdb meets them
RECURSIVE ValidatedLinks(_, _)
ValidatedLinks(order, k) ==
    IF k > Len(order) THEN <<>>
    ELSE (IF input.web[order[k]].ok
          THEN SelectSeq(input.web[order[k]].links,
                         LAMBDA link : link[ValidatorOf(order[k])])
          ELSE <<>>)
         \o ValidatedLinks(order, k + 1)

\* the detail page lists directors and none of them matches
ListsOnlyOthers(link) ==
    /\ get_director_from_imdb_page(link) # NoneT
    /\ ~validate_director_match(get_director_from_imdb_page(link), input.director)

\* C18: with a director supplied, search_imdb returns the first validated
\* candidate whose detail page lists a matching director or yields no
\* director at all, and None when there is none; a candidate whose page lists
\* only other directors is passed over.
C18_FirstCandidateNotContradicted ==
    (input.op = "search_imdb" /\ output.done /\ Truthy(input.director)) =>
        LET seen == ValidatedLinks(QueryOrder(input.director), 1)
            fine == { i \in DOMAIN seen : ~ListsOnlyOthers(seen[i]) }
        IN  IF fine = {} THEN output.imdb_id = NoneT
            ELSE LET first == CHOOSE i \in fine : \A j \in fine : i <= j
                 IN  /\ output.imdb_id = <<seen[first].id>>
                     /\ \A j \in 1..(first - 1) : ListsOnlyOthers(seen[j])

\* the first query came back with a candidate listing another director and
\* then one listing the expected director among others: the second is returned
C18_Witness ==
    /\ input.op = "search_imdb" /\ output.done
    /\ input.director = <<"Jane", "Doe">>
    /\ input.web["title director year"].ok
    /\ Len(input.web["title director year"].links) = 2
    /\ input.web["title director year"].links[1].id = "tt1"
    /\ input.web["title director year"].links[2].id = "tt2"
    /\ output.imdb_id = <<"tt2">>
    /\ output.queries = <<"title director year">>

\* the advanced search was asked and came back with a page
AdvancedAnswered ==
    /\ input.op = "search_imdb" /\ output.done
    /\ output.queries # <<>> /\ output.queries[Len(output.queries)] = "advanced"
    /\ input.web["advanced"].ok

\* the first link of the advanced result page that satisfies Passes, as the id
\* search_imdb returns; None when there is none
FirstAdvanced(Passes(_)) ==
    LET links == input.web["advanced"].links
        passing == { i \in DOMAIN links : Passes(links[i]) }
    IN  IF passing = {} THEN NoneT
        ELSE <<links[CHOOSE i \in passing : \A j \in passing : i <= j].id>>

\* every query variant of the find search was asked and yielded no accepted
\* candidate
FindSearchFailed ==
    LET order == QueryOrder(input.director)
    IN  /\ output.queries = order
        /\ \A k \in 1..(Len(order) - 1) : ~Yields(order[k])

\* C26: the secondary search endpoint is queried only after all primary query
\* variants failed to produce an accepted candidate, and in it the director
\* validation is not blocking: a candidate that passes the title and year
\* validation is accepted even when its detail page does not confirm the
\* supplied director.
C26_SecondaryDirectorNotBlocking ==
    AdvancedAnswered =>
        /\ FindSearchFailed
        /\ output.imdb_id = FirstAdvanced(LAMBDA link : link.advanced_valid)

\* what does hold: the secondary endpoint is queried only after the primary
\* variants failed, and its candidates are held to the director check of the
\* primary ones
C26_SecondaryAfterPrimary ==
    AdvancedAnswered =>
        /\ FindSearchFailed
        /\ output.imdb_id
              = FirstAdvanced(LAMBDA link : Acceptable(link, "advanced", input.director))

--------------------------------------------------------------------------
(* Properties of IMDbEnricher.enrich_films *)

\* enrich_films ran to its end on the batch
ImdbRan == input.op = "imdb_enrich_films" /\ output.done /\ output.raised = ""

\* every dict of the batch is one extract_film_data returns
ExtractorBatch == \A i \in DOMAIN input.films : input.films[i] \in ExtractorFilms

\* the dates of the showtimes of the films
ShowtimeDates(fs) ==
    UNION { ParsedDates([j \in DOMAIN fs[i].nyff_showtimes |->
                            fs[i].nyff_showtimes[j].date]) : i \in DOMAIN fs }

\* C15: on a batch of the lineup extractor the festival start date used for
\* the debut flags is the earliest date among the showtimes of all records,
\* and it is known as soon as one record has a dated showtime.
C15_StartDateFromShowtimes ==
    (ImdbRan /\ ExtractorBatch) =>
        /\ ShowtimeDates(input.films) # {} => output.festival_start_date.known
        /\ output.festival_start_date = Earliest(ShowtimeDates(input.films))

\* what the code does instead: the start date is the earliest date under the
\* key 'screenings' of the films that are processed, and unknown without one
C15_StartDateFromScreeningsKey ==
    ImdbRan =>
        /\ output.festival_start_date
             = Earliest(UNION { ParsedDates(Get(output.films[i], "screenings", <<>>)) :
                                i \in DOMAIN output.films })
        /\ ExtractorBatch => ~output.festival_start_date.known
        /\ \A i \in DOMAIN output.films :
              "is_festival_debut" \in output.films[i].keys =>
                 (output.films[i].is_festival_debut
                    <=> is_festival_debut(
                            DateStringOf(output.films[i].theatrical_release_date),
                            output.festival_start_date))

\* the director text names several directors
MultiDirector(director) == count_directors(director) >= 2

\* the record ends with no companies, no distributors, no id, no release date
LeftEmpty(f) ==
    /\ {"production_companies", "distributors", "imdb_id", "theatrical_release_date"}
          \subseteq f.keys
    /\ f.production_companies = <<>> /\ f.distributors = <<>>
    /\ f.imdb_id = NoneT /\ f.theatrical_release_date = NoneT

\* record i was skipped with a reason, without a query, and left empty
Skipped(i) ==
    /\ output.verdicts[i].skip /\ output.verdicts[i].reason # ""
    /\ output.queries[i] = <<>>
    /\ LeftEmpty(output.films[i])

\* C16: a record whose director text splits into three or more names, or
\* whose title holds a plus sign while its director text names several
\* directors, is skipped with a reason ("film with N directors" for N names),
\* no query is asked for it and it ends with empty company lists, no id and no
\* release date.
C16_SkippedRecords ==
    ImdbRan =>
        \A i \in DOMAIN output.films :
            LET director == Get(input.films[i], "director", <<>>)
                title == input.films[i].title
            IN  /\ count_directors(director) >= 3 =>
                     /\ Skipped(i)
                     /\ (~Contains(title, <<"+">>) =>
                           /\ output.verdicts[i].reason = "film with N directors"
                           /\ output.verdicts[i].director_count = count_directors(director))
                /\ (Contains(title, <<"+">>) /\ MultiDirector(director)) => Skipped(i)

\* the same with a slash in the director text as the sign of several
\* directors under a title with a plus sign, where it holds
C16_SkippedOnThreeOrSlash ==
    ImdbRan =>
        \A i \in DOMAIN output.films :
            LET director == Get(input.films[i], "director", <<>>)
                title == input.films[i].title
            IN  /\ count_directors(director) >= 3 =>
                     /\ Skipped(i)
                     /\ output.verdicts[i].reason = "film with N directors"
                     /\ output.verdicts[i].director_count = 3
                /\ (Contains(title, <<"+">>) /\ Contains(director, <<"/">>)) =>
                     /\ Skipped(i)
                     /\ output.verdicts[i].reason = "dual film screening"
                /\ ~output.verdicts[i].skip => output.queries[i] # <<>>

\* the films enrich_films goes through
Processed == Limited(input.films, input.limit)

\* some request made for record i failed
RequestFailed(i) ==
    /\ input.webs[i] # LiveWeb
    /\ ~output.verdicts[i].skip /\ output.verdicts[i].raised = ""

\* every request made for record i failed
EveryRequestFailed(i) ==
    /\ input.webs[i] = DeadWeb
    /\ ~output.verdicts[i].skip /\ output.verdicts[i].raised = ""

\* the body of the loop ran to its end for the record
WentThrough(f) == "likely_theatrical" \in f.keys

\* C27: failures stay at the record level: for any batch and any pattern of
\* network failures during the lookups, enrich_films completes without
\* raising, the failing record ends with empty company lists, no id and no
\* release date, and every record after it is still processed.
C27_FailuresStayAtRecordLevel ==
    (input.op = "imdb_enrich_films" /\ output.done) =>
        /\ output.raised = ""
        /\ Len(output.films) = Len(Processed)
        /\ \A i \in DOMAIN output.films :
              /\ WentThrough(output.films[i])
              /\ RequestFailed(i) => LeftEmpty(output.films[i])

\* what does hold: enrich_films raises exactly when it comes to a record
\* with a plus sign in its title and no director; otherwise every record is
\* processed, a record whose requests all failed ends empty, and a record
\* whose detail pages could not be fetched ends with empty company lists and
\* no release date
C27_NetworkFailuresContained ==
    (input.op = "imdb_enrich_films" /\ output.done) =>
        /\ (output.raised # "")
              <=> \E i \in DOMAIN Processed :
                     /\ Contains(Processed[i].title, <<"+">>)
                     /\ IsNone(Processed[i].director)
        /\ output.raised = "" =>
              /\ Len(output.films) = Len(Processed)
              /\ \A i \in DOMAIN output.films :
                    /\ WentThrough(output.films[i])
                    /\ EveryRequestFailed(i) => LeftEmpty(output.films[i])
                    /\ RequestFailed(i) =>
                          /\ output.films[i].production_companies = <<>>
                          /\ output.films[i].distributors = <<>>
                          /\ output.films[i].theatrical_release_date = NoneT

--------------------------------------------------------------------------
(* Properties of the batch along the pipeline *)

\* the titles of a batch, in order
TitlesOf(fs) == [i \in DOMAIN fs |-> fs[i].title]

\* C20: whatever stages ran and whatever the limit, the batch holds the
\* records the lineup extractor produced, in the same order, and so does the
\* batch handed to the exporters.
C20_NoRecordDropped ==
    input.op = "pipeline" =>
        /\ TitlesOf(films) = TitlesOf(input.extracted)
        /\ Ran("export") => TitlesOf(exported) = TitlesOf(input.extracted)

\* what holds: the records left are the first ones of the extractor's batch,
\* in its order
C20_KeptRecordsInOrder ==
    input.op = "pipeline" =>
        /\ Len(films) <= Len(input.extracted)
        /\ TitlesOf(films) = SubSeq(TitlesOf(input.extracted), 1, Len(films))
        /\ Ran("export") => exported = films

--------------------------------------------------------------------------
(* Properties of the cache directory *)

\* the document the site serves for a URL
ServedAt(url) ==
    IF url \in LineupUrls \cup { BackupUrl(i) : i \in 1..NumBackups }
    THEN DocAt(url) ELSE ImdbDocAt(url)

\* C21: the cache holds one entry per fetched URL, so that a cache hit for a
\* URL returns the content that was fetched from that same URL, for the
\* lineup fetch under different source URLs and for the search fetches of
\* different query variants or titles.
C21_HitServesSameUrl ==
    \A i \in DOMAIN lastCall.fetches :
        lastCall.fetches[i].hit =>
            lastCall.fetches[i].content = ServedAt(lastCall.fetches[i].url)

\* what does hold: a hit returns what some fetch wrote under that file name
C21_HitServesSameFile ==
    \A i \in DOMAIN lastCall.fetches :
        lastCall.fetches[i].hit =>
            /\ cache[lastCall.fetches[i].filename].exists
            /\ lastCall.fetches[i].content = cache[lastCall.fetches[i].filename].content

====
